---- MODULE Spec2Model ----
(***************************************************************************)
(* Model of the swarmgrid coordination engine: the space-time planner      *)
(* (core/planner.cpp), the world (core/world.cpp, core/types.hpp), the     *)
(* simulated broadcast network (adapters/net_sim_asio.cpp) and the tick    *)
(* loop of the simulator (simulation.cpp).                                 *)
(*                                                                         *)
(* Cells are pairs <<x, y>>.  Agent identifiers (uuids) are the positive   *)
(* integers with their numeric order; 0 is the nil uuid.  A reservation    *)
(* table is a set of entries [key |-> <<x, y, t>>, agent_id |-> a]; the    *)
(* uniqueness of keys is enforced by insert, as the hashed_unique index    *)
(* of the container does.  std::priority_queue is the binary heap of       *)
(* std::push_heap / std::pop_heap (libstdc++), kept as the heap array.     *)
(***************************************************************************)
EXTENDS Integers, Sequences, FiniteSets, TLC

VARIABLES
    world,      \* core::World: width, height, obst, agents, current_tick
    ctrl,       \* Simulation::agent_controllers_
    net,        \* NetSimAsio: broadcast queue and counters
    metrics,    \* core::MetricsCollector
    sim,        \* Simulation: current_tick_, the driver and its position
    cfg,        \* SimulationConfig and NetworkParams of the run
    twin,       \* two runs of one configuration, side by side
    pl          \* planner harness: inputs and result of one plan_path call

vars == <<world, ctrl, net, metrics, sim, cfg, twin, pl>>

----------------------------------------------------------------------------
(* Bounds of the model *)

\* largest number of reservation entries in a planner-harness table
MaxEntries == 2
\* largest max_ticks a run is configured with
MaxTicksBound == 17

----------------------------------------------------------------------------
(* Program constants *)

MAX_WAIT == 5
STATE_BROADCAST_INTERVAL == 10
STALE_STATE_THRESHOLD == 15
DEADLOCK_THRESHOLD == 6
COLLISION_DEADLOCK_THRESHOLD == 3
LOOKAHEAD_STEPS == 15
REDUNDANCY_FACTOR == 3
PERMANENT_RESERVATION_LENGTH == 200
GOAL_RESERVATION_WINDOW == 100
INTENT_KEEP_TICKS == 5
MS_PER_TICK == 100

nil_uuid == 0
\* the identifiers a run can draw for its agents
AgentIds == 1..3

----------------------------------------------------------------------------
(* core/types.hpp *)

Abs(n) == IF n < 0 THEN -n ELSE n

\* Cell::operator<
CellLess(a, b) == IF a[1] # b[1] THEN a[1] < b[1] ELSE a[2] < b[2]

is_valid_cell(w, cell) ==
    cell[1] >= 0 /\ cell[1] < w.width /\ cell[2] >= 0 /\ cell[2] < w.height

is_free_cell(w, cell) ==
    IF ~is_valid_cell(w, cell) THEN FALSE ELSE cell \notin w.obst

----------------------------------------------------------------------------
(* ReservationTable (core/planner.hpp) *)

ReservationKey(cell, t) == <<cell[1], cell[2], t>>

ReservationEntry(cell, t, agent_id) ==
    [key |-> ReservationKey(cell, t), agent_id |-> agent_id]

\* lookup in the unique index: the entries stored under key
find(reservations, key) ==
    {e \in {[key |-> key, agent_id |-> a] : a \in AgentIds} : e \in reservations}

contains_key(reservations, key) ==
    \E a \in AgentIds : [key |-> key, agent_id |-> a] \in reservations

\* an insert that does not consult the unique index
insert_unchecked(reservations, entry) == reservations \cup {entry}

\* hashed_unique insert: refused when the key is present
insert(reservations, entry) ==
    IF contains_key(reservations, entry.key)
        THEN reservations
        ELSE reservations \cup {entry}

\* erase by iterator
erase(reservations, entry) == reservations \ {entry}

----------------------------------------------------------------------------
(* std::priority_queue with std::greater: a min-heap on the ordering key *)

HeapKey(e) == IF "f_score" \in DOMAIN e THEN e.f_score ELSE e.delivery_tick

\* comp(a, b) of std::greater
HeapGreater(a, b) == HeapKey(a) > HeapKey(b)

RECURSIVE push_heap_from(_, _, _, _)
\* std::__push_heap: indices are 0-based as in the library
push_heap_from(h, holeIndex, topIndex, value) ==
    IF holeIndex > topIndex /\ HeapGreater(h[((holeIndex - 1) \div 2) + 1], value)
        THEN push_heap_from([h EXCEPT ![holeIndex + 1] = h[((holeIndex - 1) \div 2) + 1]],
                            (holeIndex - 1) \div 2, topIndex, value)
        ELSE [h EXCEPT ![holeIndex + 1] = value]

\* priority_queue::push
heap_push(h, value) == push_heap_from(Append(h, value), Len(h), 0, value)

RECURSIVE adjust_heap_down(_, _, _, _)
\* the descent loop of std::__adjust_heap; yields <<heap, holeIndex, secondChild>>
adjust_heap_down(h, holeIndex, secondChild, len) ==
    IF secondChild < (len - 1) \div 2
        THEN LET right == 2 * (secondChild + 1)
                 child == IF HeapGreater(h[right + 1], h[right]) THEN right - 1 ELSE right
             IN  adjust_heap_down([h EXCEPT ![holeIndex + 1] = h[child + 1]], child, child, len)
        ELSE <<h, holeIndex, secondChild>>

\* std::__adjust_heap(first, 0, len, value)
adjust_heap(h, len, value) ==
    LET d == adjust_heap_down(h, 0, 0, len)
        lone == len % 2 = 0 /\ d[3] = (len - 2) \div 2
        h2 == IF lone THEN [d[1] EXCEPT ![d[2] + 1] = d[1][2 * (d[3] + 1)]] ELSE d[1]
        hole2 == IF lone THEN 2 * (d[3] + 1) - 1 ELSE d[2]
    IN  push_heap_from(h2, hole2, 0, value)

\* priority_queue::top
heap_top(h) == h[1]

\* priority_queue::pop
heap_pop(h) ==
    LET n == Len(h)
    IN  IF n > 1
            THEN SubSeq(adjust_heap([h EXCEPT ![n] = h[1]], n - 1, h[n]), 1, n - 1)
            ELSE <<>>

----------------------------------------------------------------------------
(* PathPlanner (core/planner.cpp) *)

\* the offsets dx[], dy[] of get_neighbors: north, east, south, west
Dirs == << <<0, -1>>, <<1, 0>>, <<0, 1>>, <<-1, 0>> >>

get_neighbors(w, cell) ==
    LET next == [i \in 1..4 |-> <<cell[1] + Dirs[i][1], cell[2] + Dirs[i][2]>>]
    IN  SelectSeq(next, LAMBDA c : is_valid_cell(w, c) /\ is_free_cell(w, c)) \o <<cell>>

\* Manhattan distance
heuristic(from, to) == Abs(from[1] - to[1]) + Abs(from[2] - to[2])

\* variant: the owner test inverted
is_reserved_inverted(cell, time, reservations, exclude_id) ==
    ReservationEntry(cell, time, exclude_id) \in reservations

is_reserved(cell, time, reservations, exclude_id) ==
    \E a \in AgentIds :
        /\ a # exclude_id
        /\ ReservationEntry(cell, time, a) \in reservations

\* variant: the peer's first reservation looked up at next_time
edge_collision_next_tick(current, next_cell, next_time, reservations, agent_id) ==
    \E a \in AgentIds :
        /\ a # agent_id
        /\ ReservationEntry(next_cell, next_time, a) \in reservations
        /\ ReservationEntry(current.cell, next_time, a) \in reservations

\* the edge collision check of astar_with_reservations: some other agent
\* holds next_cell at the current time and the current cell at next_time
edge_collision(current, next_cell, next_time, reservations, agent_id) ==
    \E a \in AgentIds :
        /\ a # agent_id
        /\ ReservationEntry(next_cell, current.time, a) \in reservations
        /\ ReservationEntry(current.cell, next_time, a) \in reservations

RECURSIVE reconstruct(_, _, _)
\* the path reconstruction loop, before the reversal
reconstruct(came_from, key, path) ==
    IF key \in DOMAIN came_from
        THEN reconstruct(came_from, came_from[key], Append(path, key[1]))
        ELSE path

Reverse(s) == [i \in 1..Len(s) |-> s[Len(s) + 1 - i]]

RECURSIVE expand_neighbors(_, _, _, _, _, _, _)
\* the loop over the neighbors of the node current
expand_neighbors(goal, reservations, agent_id, current, neighbors, i, st) ==
    IF i > Len(neighbors)
        THEN st
        ELSE
            LET next_cell == neighbors[i]
                next_time == current.time + 1
                tentative_g == st.g_score[<<current.cell, current.time>>] + 1
                next_key == <<next_cell, next_time>>
            IN  IF is_reserved(next_cell, next_time, reservations, agent_id)
                    THEN expand_neighbors(goal, reservations, agent_id, current,
                                          neighbors, i + 1, st)
                ELSE IF next_cell # current.cell
                        /\ edge_collision(current, next_cell, next_time, reservations, agent_id)
                    THEN expand_neighbors(goal, reservations, agent_id, current,
                                          neighbors, i + 1, st)
                ELSE IF next_key \notin DOMAIN st.g_score \/ tentative_g < st.g_score[next_key]
                    THEN expand_neighbors(goal, reservations, agent_id, current,
                            neighbors, i + 1,
                            [g_score |-> (next_key :> tentative_g) @@ st.g_score,
                             came_from |-> (next_key :> <<current.cell, current.time>>)
                                              @@ st.came_from,
                             open_set |-> heap_push(st.open_set,
                                 [cell |-> next_cell, time |-> next_time,
                                  f_score |-> tentative_g + heuristic(next_cell, goal)])])
                ELSE expand_neighbors(goal, reservations, agent_id, current,
                                      neighbors, i + 1, st)

RECURSIVE astar_loop(_, _, _, _, _, _, _)
\* the main loop of astar_with_reservations
astar_loop(w, start, goal, reservations, agent_id, max_time, st) ==
    IF st.open_set = <<>>
        THEN <<>>
        ELSE
            LET current == heap_top(st.open_set)
                popped == [st EXCEPT !.open_set = heap_pop(st.open_set)]
            IN  IF current.cell = goal
                    THEN Reverse(Append(reconstruct(st.came_from,
                                            <<current.cell, current.time>>, <<>>), start))
                ELSE IF current.time >= max_time
                    THEN astar_loop(w, start, goal, reservations, agent_id, max_time, popped)
                ELSE astar_loop(w, start, goal, reservations, agent_id, max_time,
                        expand_neighbors(goal, reservations, agent_id, current,
                                         get_neighbors(w, current.cell), 1, popped))

\* variant: the horizon one tick short
astar_with_reservations_short_horizon(w, start, goal, reservations, agent_id, start_time) ==
    astar_loop(w, start, goal, reservations, agent_id,
               start_time + w.width * w.height * 2 - 1,
               [open_set |-> << [cell |-> start, time |-> start_time,
                                 f_score |-> heuristic(start, goal)] >>,
                g_score |-> (<<start, start_time>> :> 0),
                came_from |-> << >>])

astar_with_reservations(w, start, goal, reservations, agent_id, start_time) ==
    astar_loop(w, start, goal, reservations, agent_id,
               start_time + w.width * w.height * 2,
               [open_set |-> << [cell |-> start, time |-> start_time,
                                 f_score |-> heuristic(start, goal)] >>,
                g_score |-> (<<start, start_time>> :> 0),
                came_from |-> << >>])

\* variant: the guard on start and goal left out
plan_path_unguarded(w, start, goal, reservations, agent_id, start_time) ==
    astar_with_reservations(w, start, goal, reservations, agent_id, start_time)

plan_path(w, start, goal, reservations, agent_id, start_time) ==
    IF ~is_free_cell(w, start) \/ ~is_free_cell(w, goal)
        THEN <<>>
        ELSE astar_with_reservations(w, start, goal, reservations, agent_id, start_time)

clear_reservations(agent_id, reservations) ==
    {e \in reservations : e.agent_id # agent_id}

\* the two loops with the second one starting one tick late
commit_entries_late_window(path, agent_id, start_time) ==
    { ReservationEntry(path[i], start_time + (i - 1), agent_id) : i \in 1..Len(path) }
    \cup
    ( IF path # <<>>
        THEN { ReservationEntry(path[Len(path)], start_time + Len(path) + future, agent_id) :
                 future \in 1..GOAL_RESERVATION_WINDOW }
        ELSE {} )

\* the entries the two loops of commit_reservations try to insert: path[i]
\* at start_time + i, then the last cell at goal_time + future
commit_entries(path, agent_id, start_time) ==
    { ReservationEntry(path[i], start_time + (i - 1), agent_id) : i \in 1..Len(path) }
    \cup
    ( IF path # <<>>
        THEN { ReservationEntry(path[Len(path)], start_time + Len(path) + future, agent_id) :
                 future \in 0..(GOAL_RESERVATION_WINDOW - 1) }
        ELSE {} )

\* variant: an insert under a key another agent owns replaces the entry
commit_reservations_overwriting(path, agent_id, reservations, start_time) ==
    LET entries == commit_entries(path, agent_id, start_time)
    IN  { e \in reservations :
            e.agent_id # agent_id /\ e.key \notin { f.key : f \in entries } }
        \cup entries

\* the inserts without the clear before them
commit_reservations_keeping(path, agent_id, reservations, start_time) ==
    reservations \cup
    { e \in commit_entries(path, agent_id, start_time) :
        ~contains_key(reservations, e.key) }

\* clear, then one insert per entry.  After the clear every key present
\* belongs to another agent, and two inserts of one key by this call carry
\* the same entry, so the order of the inserts does not show in the result.
commit_reservations(path, agent_id, reservations, start_time) ==
    LET cleared == clear_reservations(agent_id, reservations)
    IN  cleared \cup
        { e \in commit_entries(path, agent_id, start_time) :
            ~contains_key(cleared, e.key) }

----------------------------------------------------------------------------
(* NetSimAsio (adapters/net_sim_asio.cpp).  Only the queue of the nil uuid *)
(* is ever created: send pushes to it and receive looks up the queue of    *)
(* the agent without finding one.  The generator rng_ is the pair of       *)
(* streams of the seed: the k-th drop draw and the k-th latency draw.      *)

\* per seed, whether a drop draw falls below a positive drop_probability
DropStreams ==
    << <<TRUE, FALSE, FALSE>>,
       <<TRUE, TRUE, TRUE, FALSE, FALSE, FALSE>> >>

\* per seed, the latencies in ms drawn from latency_dist_
LatencyStreams ==
    << <<40, 120>>,
       <<-30, 250, 40>> >>

Seeds == 1..2

Cyclic(stream, k) == stream[(k % Len(stream)) + 1]

should_drop_message(n, c) ==
    c.network_params.drop_probability > 0
        /\ Cyclic(DropStreams[c.seed], n.drop_draws)

Max(a, b) == IF a > b THEN a ELSE b

\* a delivery time without the tick added to the latency
calculate_delivery_time_immediate(n, send_tick, c) ==
    IF c.network_params.mean_latency_ms = 0 /\ c.network_params.jitter_ms = 0
        THEN send_tick
        ELSE LET latency_ms == Max(0, Cyclic(LatencyStreams[c.seed], n.latency_draws))
             IN  send_tick + (latency_ms \div MS_PER_TICK)

calculate_delivery_time(n, send_tick, c) ==
    IF c.network_params.mean_latency_ms = 0 /\ c.network_params.jitter_ms = 0
        THEN send_tick + 1
        ELSE LET latency_ms == Max(0, Cyclic(LatencyStreams[c.seed], n.latency_draws))
                 latency_ticks == (latency_ms \div MS_PER_TICK) + 1
             IN  send_tick + latency_ticks

ZeroLatency(c) ==
    c.network_params.mean_latency_ms = 0 /\ c.network_params.jitter_ms = 0

send(n, msg, c) ==
    LET counted == [n EXCEPT !.total_sent = @ + 1, !.drop_draws = @ + 1]
    IN  IF should_drop_message(n, c)
            THEN [counted EXCEPT !.total_dropped = @ + 1]
            ELSE [counted EXCEPT
                    !.queue = heap_push(@, [msg |-> msg,
                                  delivery_tick |->
                                      calculate_delivery_time(n, msg.timestamp, c)]),
                    !.latency_draws = IF ZeroLatency(c) THEN @ ELSE @ + 1]

RECURSIVE send_times(_, _, _, _)
\* the redundancy loop: i further copies of msg
send_times(n, msg, c, i) ==
    IF i = 0 THEN n ELSE send_times(send(n, msg, c), msg, c, i - 1)

RECURSIVE drain(_, _, _, _)
\* the loop of receive over the broadcast queue
drain(queue, agent_id, current_tick, ready_messages) ==
    IF queue # <<>> /\ heap_top(queue).delivery_tick <= current_tick
        THEN drain(heap_pop(queue), agent_id, current_tick,
                   IF heap_top(queue).msg.from # agent_id
                       THEN Append(ready_messages, heap_top(queue).msg)
                       ELSE ready_messages)
        ELSE [queue |-> queue, ready_messages |-> ready_messages]

\* yields the queue left behind and the messages returned
receive(n, agent_id, current_tick) == drain(n.queue, agent_id, current_tick, <<>>)

get_stats(n) == [sent |-> n.total_sent, dropped |-> n.total_dropped]

NewNetwork == [queue |-> <<>>, total_sent |-> 0, total_dropped |-> 0,
               drop_draws |-> 0, latency_draws |-> 0]

----------------------------------------------------------------------------
(* WorldManager (core/world.cpp) and World (core/types.hpp)                *)

NumAgents(w) == Len(w.agents)

is_occupied(w, cell, exclude_id) ==
    \E i \in 1..NumAgents(w) :
        w.agents[i].id # exclude_id /\ w.agents[i].pos = cell

\* find_if over world.agents by id
AgentOf(w, agent_id) ==
    CHOOSE i \in 1..NumAgents(w) : w.agents[i].id = agent_id

\* a move that does not ask whether the cell is occupied
move_agent_unchecked(w, agent_id, new_pos) ==
    IF ~ \E i \in 1..NumAgents(w) : w.agents[i].id = agent_id
        THEN [world |-> w, moved |-> FALSE]
    ELSE IF ~is_valid_cell(w, new_pos) \/ ~is_free_cell(w, new_pos)
        THEN [world |-> w, moved |-> FALSE]
    ELSE [world |-> [w EXCEPT
                       !.agents[AgentOf(w, agent_id)].pos = new_pos,
                       !.agents[AgentOf(w, agent_id)].at_goal =
                           (@ \/ new_pos = w.agents[AgentOf(w, agent_id)].goal)],
          moved |-> TRUE]

\* yields the world after the call and the value returned
move_agent(w, agent_id, new_pos) ==
    IF ~ \E i \in 1..NumAgents(w) : w.agents[i].id = agent_id
        THEN [world |-> w, moved |-> FALSE]
    ELSE IF ~is_valid_cell(w, new_pos) \/ ~is_free_cell(w, new_pos)
        THEN [world |-> w, moved |-> FALSE]
    ELSE IF is_occupied(w, new_pos, agent_id)
        THEN [world |-> w, moved |-> FALSE]
    ELSE [world |-> [w EXCEPT
                       !.agents[AgentOf(w, agent_id)].pos = new_pos,
                       !.agents[AgentOf(w, agent_id)].at_goal =
                           (@ \/ new_pos = w.agents[AgentOf(w, agent_id)].goal)],
          moved |-> TRUE]

all_agents_at_goal(w) == \A i \in 1..NumAgents(w) : w.agents[i].at_goal

count_active_agents(w) == Cardinality({i \in 1..NumAgents(w) : ~w.agents[i].at_goal})

check_collision(w, agent_id, pos) == is_occupied(w, pos, agent_id)

advance_tick(w) == [w EXCEPT !.current_tick = @ + 1]

\* the setter of the collision_stopped flag of an agent
set_agent_collision_stopped(w, agent_id, stopped) ==
    IF \E i \in 1..NumAgents(w) : w.agents[i].id = agent_id
        THEN [w EXCEPT !.agents[AgentOf(w, agent_id)].collision_stopped = stopped]
        ELSE w

\* the agents sharing a cell with another one
Colliding(w) ==
    {i \in 1..NumAgents(w) :
        \E j \in 1..NumAgents(w) : j # i /\ w.agents[j].pos = w.agents[i].pos}

\* the first agent of world.agents standing on the cell of agent i
FirstOnCell(w, i) ==
    CHOOSE j \in 1..NumAgents(w) :
        /\ w.agents[j].pos = w.agents[i].pos
        /\ \A k \in 1..(j - 1) : w.agents[k].pos # w.agents[i].pos

RECURSIVE InOrder(_, _)
\* the agents of a set, by cell and within a cell in the order of world.agents
InOrder(w, S) ==
    IF S = {}
        THEN <<>>
        ELSE LET i == CHOOSE x \in S :
                        \A y \in S :
                            \/ FirstOnCell(w, x) < FirstOnCell(w, y)
                            \/ FirstOnCell(w, x) = FirstOnCell(w, y) /\ x <= y
             IN  <<w.agents[i].id>> \o InOrder(w, S \ {i})

\* a detection that reports no agent
detect_collisions_none(w) == <<>>

\* the ids of the colliding agents.  position_map keeps the agents of one
\* cell in the order of world.agents; with at most three agents only one
\* cell can hold two of them, so the order of the map does not show.
detect_collisions(w) == InOrder(w, Colliding(w))

----------------------------------------------------------------------------
(* Simulation (simulation.cpp): the state of a simulator is the record     *)
(* [world, ctrl, net, metrics, sim, cfg]; each phase maps it to the state  *)
(* it leaves behind.                                                       *)

\* AgentController as initialize() and reset() build it
NewController(agent) ==
    [id |-> agent.id,
     current_path |-> <<>>,
     path_index |-> 0,
     last_intent |-> agent.pos,
     needs_replan |-> TRUE,
     wait_counter |-> 0,
     known_intents |-> <<>>,
     local_reservations |-> {},
     last_seen_sequence |-> <<>>,
     last_state_broadcast |-> 0,
     last_state_received |-> 0,
     vector_clock |-> <<>>,
     local_clock |-> 0,
     stuck_counter |-> 0,
     last_position |-> <<-1, -1>>,
     last_successful_move |-> 0]

\* MetricsCollector after construction and after reset()
NewMetrics ==
    [total_messages |-> 0, dropped_messages |-> 0, total_replans |-> 0,
     collision_detected |-> FALSE, makespan |-> 0, traces |-> <<>>]

record_replans(m, n) == [m EXCEPT !.total_replans = @ + n]

\* std::unordered_map::operator[] read of a counter: absent keys read 0
At(map, k) == IF k \in DOMAIN map THEN map[k] ELSE 0

Put(map, k, v) == (k :> v) @@ map

\* the clock merge without the increment of the local clock
merge_clock_unticked(c, msg) ==
    LET merged == [a \in DOMAIN c.vector_clock \cup DOMAIN msg.vector_clock |->
                      IF a \in DOMAIN msg.vector_clock
                          THEN Max(At(c.vector_clock, a), msg.vector_clock[a])
                          ELSE c.vector_clock[a]]
        local_clock == Max(c.local_clock, At(merged, c.id))
    IN  [c EXCEPT !.vector_clock = Put(merged, c.id, local_clock),
                  !.local_clock = local_clock]

\* the clock update made on receiving msg
merge_clock(c, msg) ==
    LET merged == [a \in DOMAIN c.vector_clock \cup DOMAIN msg.vector_clock |->
                      IF a \in DOMAIN msg.vector_clock
                          THEN Max(At(c.vector_clock, a), msg.vector_clock[a])
                          ELSE c.vector_clock[a]]
        local_clock == Max(c.local_clock, At(merged, c.id)) + 1
    IN  [c EXCEPT !.vector_clock = Put(merged, c.id, local_clock),
                  !.local_clock = local_clock]

\* replace the intent known of the sender, or append it
store_intent(known_intents, msg) ==
    LET intent == [agent_id |-> msg.from, next_position |-> msg.next,
                   timestamp |-> msg.timestamp, announced_path |-> msg.planned_path]
    IN  IF \E k \in 1..Len(known_intents) : known_intents[k].agent_id = msg.from
            THEN LET k == CHOOSE k \in 1..Len(known_intents) :
                            /\ known_intents[k].agent_id = msg.from
                            /\ \A j \in 1..(k - 1) : known_intents[j].agent_id # msg.from
                 IN  [known_intents EXCEPT ![k] = intent]
            ELSE Append(known_intents, intent)

\* the tie-break of the future-conflict check
should_replan(c, msg) ==
    IF msg.from \in DOMAIN msg.vector_clock /\ c.id \in DOMAIN c.vector_clock
        THEN msg.vector_clock[msg.from] > c.vector_clock[c.id]
        ELSE msg.from < c.id

\* the offsets at which both paths name the same cell
ConflictOffsets(c, msg) ==
    {o \in 0..(LOOKAHEAD_STEPS - 1) :
        /\ c.path_index + o < Len(c.current_path)
        /\ o < Len(msg.planned_path)
        /\ c.current_path[c.path_index + o + 1] = msg.planned_path[o + 1]}

\* the lookahead loops: the outer loop is left after its first round when
\* needs_replan is set, by this message or before it
future_conflict(c, msg) ==
    /\ c.current_path # <<>> /\ msg.planned_path # <<>>
    /\ should_replan(c, msg)
    /\ IF c.needs_replan
           THEN 0 \in ConflictOffsets(c, msg)
           ELSE ConflictOffsets(c, msg) # {}

\* the branch of PATH_ANNOUNCEMENT and GOAL_REACHED
handle_path_message(acc, msg, current_tick) ==
    LET c == acc.c
        committed ==
            [c EXCEPT
               !.known_intents = store_intent(@, msg),
               !.local_reservations =
                   IF msg.planned_path # <<>>
                       THEN commit_reservations(msg.planned_path, msg.from, @, current_tick)
                       ELSE @]
    IN  IF future_conflict(committed, msg)
            THEN [c |-> [committed EXCEPT !.needs_replan = TRUE],
                  replans |-> acc.replans + 1]
            ELSE [c |-> committed, replans |-> acc.replans]

\* whether the incoming reservation replaces the one held under its key
should_replace(c, msg, reservation, existing) ==
    IF reservation.agent_id \in DOMAIN msg.vector_clock
          /\ existing.agent_id \in DOMAIN c.vector_clock
        THEN msg.vector_clock[reservation.agent_id] > c.vector_clock[existing.agent_id]
        ELSE reservation.agent_id < existing.agent_id

\* the merge loop over *msg.full_state.  The keys of the incoming table
\* are distinct and the clocks do not change during the loop, so every key
\* is decided on its own.
merge_state(c, msg) ==
    LET incoming == msg.full_state[1]
        mine == c.local_reservations
        kept == {e \in mine :
                    \A r \in find(incoming, e.key) : ~should_replace(c, msg, r, e)}
        adopted == {r \in incoming :
                    \A e \in find(mine, r.key) : should_replace(c, msg, r, e)}
    IN  kept \cup adopted

\* the branch of STATE_SYNC accepting a sequence number seen before
handle_state_message_again(acc, msg, current_tick) ==
    LET c == acc.c
        last_seq == At(c.last_seen_sequence, msg.from)
    IN  IF msg.full_state = <<>>
            THEN acc
        ELSE IF msg.sequence_number >= last_seq
            THEN [acc EXCEPT
                    !.c.local_reservations = merge_state(c, msg),
                    !.c.last_seen_sequence = Put(@, msg.from, msg.sequence_number),
                    !.c.last_state_received = current_tick]
        ELSE [acc EXCEPT !.c.last_seen_sequence = Put(@, msg.from, last_seq)]

\* the branch of STATE_SYNC
handle_state_message(acc, msg, current_tick) ==
    LET c == acc.c
        last_seq == At(c.last_seen_sequence, msg.from)
    IN  IF msg.full_state = <<>>
            THEN acc
        ELSE IF msg.sequence_number > last_seq
            THEN [acc EXCEPT
                    !.c.local_reservations = merge_state(c, msg),
                    !.c.last_seen_sequence = Put(@, msg.from, msg.sequence_number),
                    !.c.last_state_received = current_tick]
        ELSE [acc EXCEPT !.c.last_seen_sequence = Put(@, msg.from, last_seq)]

\* the body of the loop over the received messages
handle_message(acc, msg, current_tick) ==
    LET clocked == [acc EXCEPT !.c = merge_clock(@, msg)]
    IN  IF msg.type \in {"PATH_ANNOUNCEMENT", "GOAL_REACHED"}
            THEN handle_path_message(clocked, msg, current_tick)
        ELSE IF msg.type = "STATE_SYNC"
            THEN handle_state_message(clocked, msg, current_tick)
        ELSE clocked

RECURSIVE handle_messages(_, _, _, _)
handle_messages(acc, messages, k, current_tick) ==
    IF k > Len(messages)
        THEN acc
        ELSE handle_messages(handle_message(acc, messages[k], current_tick),
                             messages, k + 1, current_tick)

RECURSIVE receive_from(_, _)
\* the loop of receive_and_update_local_state over the controllers, from i on
receive_from(s, i) ==
    IF i > Len(s.ctrl)
        THEN s
        ELSE
            LET current_tick == s.world.current_tick
                got == receive(s.net, s.ctrl[i].id, current_tick)
                acc == handle_messages(
                           [c |-> [s.ctrl[i] EXCEPT !.local_reservations = {}],
                            replans |-> 0],
                           got.ready_messages, 1, current_tick)
            IN  receive_from([s EXCEPT !.ctrl[i] = acc.c,
                                       !.net.queue = got.queue,
                                       !.metrics = record_replans(@, acc.replans)],
                             i + 1)

receive_and_update_local_state(s) == receive_from(s, 1)

\* the copy of the agent's state a phase takes for the controller c
AgentState(s, c) == s.world.agents[AgentOf(s.world, c.id)]

\* a task that plans on, and commits to, the table of the first controller
plan_task_shared(s, i) ==
    LET c == s.ctrl[i]
        agent_state == AgentState(s, c)
        current_tick == s.world.current_tick
        cleared == clear_reservations(c.id, s.ctrl[1].local_reservations)
        path == plan_path(s.world, agent_state.pos, agent_state.goal, cleared,
                          c.id, current_tick)
    IN  IF agent_state.at_goal \/ agent_state.collision_stopped
            THEN s
        ELSE IF ~(c.needs_replan \/ c.current_path = <<>>
                    \/ c.path_index >= Len(c.current_path))
            THEN s
        ELSE IF path # <<>>
            THEN [s EXCEPT !.ctrl[i] =
                    [c EXCEPT !.current_path = path,
                              !.path_index = 0,
                              !.needs_replan = FALSE,
                              !.wait_counter = 0],
                           !.ctrl[1].local_reservations =
                               commit_reservations(path, c.id, cleared, current_tick)]
        ELSE [s EXCEPT !.ctrl[i] =
                    [c EXCEPT !.wait_counter = @ + 1,
                              !.needs_replan = @ \/ c.wait_counter + 1 >= MAX_WAIT],
                 !.ctrl[1].local_reservations = cleared,
                 !.metrics = record_replans(@,
                                 IF c.wait_counter + 1 >= MAX_WAIT THEN 1 ELSE 0)]

\* the task plan_agent_moves starts for controller i
plan_task(s, i) ==
    LET c == s.ctrl[i]
        agent_state == AgentState(s, c)
        current_tick == s.world.current_tick
        cleared == clear_reservations(c.id, c.local_reservations)
        path == plan_path(s.world, agent_state.pos, agent_state.goal, cleared,
                          c.id, current_tick)
    IN  IF agent_state.at_goal \/ agent_state.collision_stopped
            THEN s
        ELSE IF ~(c.needs_replan \/ c.current_path = <<>>
                    \/ c.path_index >= Len(c.current_path))
            THEN s
        ELSE IF path # <<>>
            THEN [s EXCEPT !.ctrl[i] =
                    [c EXCEPT !.current_path = path,
                              !.path_index = 0,
                              !.needs_replan = FALSE,
                              !.wait_counter = 0,
                              !.local_reservations =
                                  commit_reservations(path, c.id, cleared, current_tick)]]
        ELSE [s EXCEPT !.ctrl[i] =
                    [c EXCEPT !.local_reservations = cleared,
                              !.wait_counter = @ + 1,
                              !.needs_replan = @ \/ c.wait_counter + 1 >= MAX_WAIT],
                 !.metrics = record_replans(@,
                                 IF c.wait_counter + 1 >= MAX_WAIT THEN 1 ELSE 0)]

\* whether the agent announces a long stay on its cell
Stationary(c, agent_state) ==
    agent_state.at_goal \/ agent_state.collision_stopped \/ c.current_path = <<>>

\* a path message that announces the whole path, walked cells included
path_message_whole_path(c, agent_state, current_tick, vector_clock) ==
    [from |-> c.id,
     type |-> IF Stationary(c, agent_state) /\ agent_state.at_goal
                  THEN "GOAL_REACHED" ELSE "PATH_ANNOUNCEMENT",
     next |-> IF Stationary(c, agent_state) THEN agent_state.pos
              ELSE IF c.path_index < Len(c.current_path)
                  THEN c.current_path[c.path_index + 1]
              ELSE c.last_intent,
     timestamp |-> current_tick,
     planned_path |->
         IF Stationary(c, agent_state)
             THEN [k \in 1..PERMANENT_RESERVATION_LENGTH |-> agent_state.pos]
             ELSE c.current_path,
     sequence_number |-> 0,
     full_state |-> <<>>,
     vector_clock |-> vector_clock]

\* the path message of controller c, stamped with the clock given
path_message(c, agent_state, current_tick, vector_clock) ==
    [from |-> c.id,
     type |-> IF Stationary(c, agent_state) /\ agent_state.at_goal
                  THEN "GOAL_REACHED" ELSE "PATH_ANNOUNCEMENT",
     next |-> IF Stationary(c, agent_state) THEN agent_state.pos
              ELSE IF c.path_index < Len(c.current_path)
                  THEN c.current_path[c.path_index + 1]
              ELSE c.last_intent,
     timestamp |-> current_tick,
     planned_path |->
         IF Stationary(c, agent_state)
             THEN [k \in 1..PERMANENT_RESERVATION_LENGTH |-> agent_state.pos]
         ELSE IF c.path_index < Len(c.current_path)
             THEN SubSeq(c.current_path, c.path_index + 1, Len(c.current_path))
         ELSE <<>>,
     sequence_number |-> 0,
     full_state |-> <<>>,
     vector_clock |-> vector_clock]

\* the state message of controller c; its field next is never set nor read
state_message(c, current_tick, vector_clock) ==
    [from |-> c.id,
     type |-> "STATE_SYNC",
     next |-> <<0, 0>>,
     timestamp |-> current_tick,
     planned_path |-> <<>>,
     sequence_number |-> current_tick,
     full_state |-> <<c.local_reservations>>,
     vector_clock |-> vector_clock]

\* local_clock++ and the stamp of the own component
tick_clock(c) ==
    [c EXCEPT !.local_clock = @ + 1,
              !.vector_clock = Put(@, c.id, c.local_clock + 1)]

sync_due(c, current_tick) ==
    \/ current_tick % STATE_BROADCAST_INTERVAL = 0
    \/ current_tick - c.last_state_received > STALE_STATE_THRESHOLD

RECURSIVE broadcast_from(_, _)
\* the sending loop of broadcast_intents over the controllers, from i on
broadcast_from(s, i) ==
    IF i > Len(s.ctrl)
        THEN s
        ELSE
            LET current_tick == s.world.current_tick
                c1 == tick_clock(s.ctrl[i])
                path_msg == path_message(c1, AgentState(s, c1), current_tick,
                                         c1.vector_clock)
                n1 == send_times(s.net, path_msg, s.cfg, REDUNDANCY_FACTOR)
                c2 == [tick_clock(c1) EXCEPT !.last_state_broadcast = current_tick]
                state_msg == state_message(c2, current_tick, c2.vector_clock)
                n2 == send_times(n1, state_msg, s.cfg, REDUNDANCY_FACTOR)
            IN  IF sync_due(c1, current_tick)
                    THEN broadcast_from([s EXCEPT !.ctrl[i] = c2, !.net = n2], i + 1)
                    ELSE broadcast_from([s EXCEPT !.ctrl[i] = c1, !.net = n1], i + 1)

\* the cleanup of the intents older than a few ticks
forget_intents(c, current_tick) ==
    [c EXCEPT !.known_intents =
        SelectSeq(@, LAMBDA intent : ~(intent.timestamp + INTENT_KEEP_TICKS < current_tick))]

broadcast_intents(s) ==
    LET cleaned == [s EXCEPT !.ctrl =
                       [i \in 1..Len(s.ctrl) |->
                           forget_intents(s.ctrl[i], s.world.current_tick)]]
        stats_before == get_stats(s.net)
        sent == broadcast_from(cleaned, 1)
        stats_after == get_stats(sent.net)
    IN  [sent EXCEPT
           !.metrics.total_messages = @ + (stats_after.sent - stats_before.sent),
           !.metrics.dropped_messages = @ + (stats_after.dropped - stats_before.dropped)]

\* whether controller i contributes a next cell to a phase
Moving(s, i) ==
    /\ ~AgentState(s, s.ctrl[i]).at_goal
    /\ ~AgentState(s, s.ctrl[i]).collision_stopped
    /\ s.ctrl[i].path_index < Len(s.ctrl[i].current_path)

NextCell(s, i) == s.ctrl[i].current_path[s.ctrl[i].path_index + 1]

\* next_positions[cell].size() > 1 for the next cell of controller i
Contested(s, i) ==
    /\ Moving(s, i)
    /\ \E j \in 1..Len(s.ctrl) :
          j # i /\ Moving(s, j) /\ NextCell(s, j) = NextCell(s, i)

\* the emergency replanning of one controller; it plans from current_tick_
emergency_replan(s, c) ==
    LET agent_state == AgentState(s, c)
        cleared == clear_reservations(c.id, c.local_reservations)
        path == plan_path(s.world, agent_state.pos, agent_state.goal, cleared,
                          c.id, s.sim.current_tick_)
    IN  IF ~c.needs_replan \/ agent_state.at_goal \/ agent_state.collision_stopped
            THEN c
        ELSE IF path # <<>>
            THEN [c EXCEPT !.current_path = path,
                           !.path_index = 0,
                           !.needs_replan = FALSE,
                           !.local_reservations =
                               commit_reservations(path, c.id, cleared,
                                                   s.sim.current_tick_)]
        ELSE [c EXCEPT !.local_reservations = cleared]

validate_pre_execution_conflicts(s) ==
    LET contested == {i \in 1..Len(s.ctrl) : Contested(s, i)}
        forced == [s EXCEPT
                     !.ctrl = [i \in 1..Len(s.ctrl) |->
                                 IF i \in contested
                                     THEN [s.ctrl[i] EXCEPT !.needs_replan = TRUE]
                                     ELSE s.ctrl[i]],
                     !.metrics = record_replans(@, Cardinality(contested))]
    IN  [forced EXCEPT
           !.ctrl = [i \in 1..Len(s.ctrl) |-> emergency_replan(forced, forced.ctrl[i])]]

\* the bookkeeping of detect_and_resolve_deadlocks for one controller
track_progress(c, agent_state, current_tick) ==
    IF agent_state.at_goal
        THEN c
    ELSE IF c.last_position # <<-1, -1>> /\ c.last_position = agent_state.pos
        THEN [c EXCEPT !.stuck_counter = @ + 1]
    ELSE [c EXCEPT !.last_position = agent_state.pos,
                   !.last_successful_move = current_tick,
                   !.stuck_counter = 0]

\* a threshold that ignores the collision stop
deadlock_threshold_uniform(agent_state) == DEADLOCK_THRESHOLD

deadlock_threshold(agent_state) ==
    IF agent_state.collision_stopped
        THEN COLLISION_DEADLOCK_THRESHOLD
        ELSE DEADLOCK_THRESHOLD

\* the ids pushed to deadlocked_agents
deadlocked_agents(s) ==
    {s.ctrl[i].id : i \in
        {i \in 1..Len(s.ctrl) :
            LET c == s.ctrl[i]
                agent_state == AgentState(s, c)
            IN  /\ ~agent_state.at_goal
                /\ c.last_position # <<-1, -1>>
                /\ c.last_position = agent_state.pos
                /\ c.stuck_counter + 1 >= deadlock_threshold(agent_state)}}

RECURSIVE sort(_)
\* std::sort of a set of ids, ascending
sort(ids) ==
    IF ids = {}
        THEN <<>>
        ELSE LET least == CHOOSE x \in ids : \A y \in ids : x <= y
             IN  <<least>> \o sort(ids \ {least})

\* the body of the loop of resolve_deadlock for sorted_agents[i], i from 0
back_off(s, agent_id, i) ==
    LET k == CHOOSE k \in 1..Len(s.ctrl) : s.ctrl[k].id = agent_id
        c == s.ctrl[k]
    IN  [s EXCEPT
           !.ctrl[k] = [c EXCEPT
                          !.current_path = <<>>,
                          !.path_index = 0,
                          !.needs_replan = TRUE,
                          !.stuck_counter = 0,
                          !.local_reservations = clear_reservations(agent_id, @),
                          !.wait_counter = 3 + (i % 5)],
           !.world = set_agent_collision_stopped(@, agent_id, FALSE),
           !.metrics = record_replans(@, 1)]

RECURSIVE back_off_from(_, _, _)
back_off_from(s, sorted_agents, i) ==
    IF i >= Len(sorted_agents)
        THEN s
        ELSE back_off_from(back_off(s, sorted_agents[i + 1], i), sorted_agents, i + 1)

\* a resolver that backs off the agents with the smallest ids
resolve_deadlock_lowest(s, deadlocked) ==
    LET sorted_agents == sort(deadlocked)
        agents_to_back_off == Max(1, Len(sorted_agents) \div 2)
    IN  back_off_from(s, SubSeq(sorted_agents, 1, agents_to_back_off), 0)

resolve_deadlock(s, deadlocked) ==
    LET sorted_agents == sort(deadlocked)
        agents_to_back_off == Max(1, Len(sorted_agents) \div 2)
    IN  back_off_from(s, sorted_agents, Len(sorted_agents) - agents_to_back_off)

detect_and_resolve_deadlocks(s) ==
    LET tracked == [s EXCEPT
                      !.ctrl = [i \in 1..Len(s.ctrl) |->
                                  track_progress(s.ctrl[i], AgentState(s, s.ctrl[i]),
                                                 s.world.current_tick)]]
    IN  IF deadlocked_agents(s) # {}
            THEN resolve_deadlock(tracked, deadlocked_agents(s))
            ELSE tracked

\* whether execute_moves can put an agent on the cell
Enterable(w, cell) == is_valid_cell(w, cell) /\ cell \notin w.obst

\* all intended moves are taken from the state before the first of them, and
\* each touches its own agent and controller only
execute_moves(s) ==
    LET movers == {i \in 1..Len(s.ctrl) : Moving(s, i)}
        forced == {i \in movers : Enterable(s.world, NextCell(s, i))}
        AgentAfter(a) ==
            IF \E i \in forced : s.ctrl[i].id = a.id
                THEN LET i == CHOOSE i \in forced : s.ctrl[i].id = a.id
                     IN  [a EXCEPT !.pos = NextCell(s, i),
                                   !.at_goal = @ \/ NextCell(s, i) = a.goal]
                ELSE a
    IN  [s EXCEPT
           !.world.agents = [k \in 1..NumAgents(s.world) |-> AgentAfter(s.world.agents[k])],
           !.ctrl = [i \in 1..Len(s.ctrl) |->
                       IF i \in forced
                           THEN [s.ctrl[i] EXCEPT !.path_index = @ + 1,
                                                  !.last_intent = NextCell(s, i)]
                       ELSE IF i \in movers
                           THEN [s.ctrl[i] EXCEPT !.needs_replan = TRUE]
                       ELSE s.ctrl[i]],
           !.metrics = record_replans(@, Cardinality(movers \ forced))]

\* variant: the candidates tried north first
adjacent_cells_north_first(current_pos) ==
    << <<current_pos[1], current_pos[2] - 1>>,
       <<current_pos[1] + 1, current_pos[2]>>,
       <<current_pos[1] - 1, current_pos[2]>>,
       <<current_pos[1], current_pos[2] + 1>> >>

\* the candidates of the displacement, in the order they are tried
adjacent_cells(current_pos) ==
    << <<current_pos[1] + 1, current_pos[2]>>,
       <<current_pos[1] - 1, current_pos[2]>>,
       <<current_pos[1], current_pos[2] + 1>>,
       <<current_pos[1], current_pos[2] - 1>> >>

CanDisplace(w, agent_id, candidate_pos) ==
    /\ Enterable(w, candidate_pos)
    /\ ~check_collision(w, agent_id, candidate_pos)

\* the handling of one colliding agent
displace(s, agent_id) ==
    LET w == s.world
        current_pos == w.agents[AgentOf(w, agent_id)].pos
        cells == adjacent_cells(current_pos)
        free == {n \in 1..Len(cells) : CanDisplace(w, agent_id, cells[n])}
        first == CHOOSE n \in free : \A m \in free : n <= m
        k == CHOOSE k \in 1..Len(s.ctrl) : s.ctrl[k].id = agent_id
    IN  [s EXCEPT
           !.world = IF free # {}
                         THEN move_agent(w, agent_id, cells[first]).world
                         ELSE set_agent_collision_stopped(w, agent_id, TRUE),
           !.ctrl[k].needs_replan = TRUE,
           !.metrics = record_replans(@, 1)]

RECURSIVE displace_from(_, _, _)
displace_from(s, colliding_agents, n) ==
    IF n > Len(colliding_agents)
        THEN s
        ELSE displace_from(displace(s, colliding_agents[n]), colliding_agents, n + 1)

detect_and_handle_collisions(s) ==
    LET colliding_agents == detect_collisions(s.world)
    IN  IF colliding_agents # <<>>
            THEN displace_from([s EXCEPT !.metrics.collision_detected = TRUE],
                               colliding_agents, 1)
            ELSE s

\* the trace step_internal records at its end
record_tick_trace(s) ==
    [s EXCEPT !.metrics.traces =
        Append(@, [tick |-> s.world.current_tick,
                   active_agents |-> count_active_agents(s.world),
                   messages_sent |-> 0,
                   agent_positions |->
                       [k \in 1..NumAgents(s.world) |->
                           <<s.world.agents[k].id, s.world.agents[k].pos>>]])]

check_termination(s) == all_agents_at_goal(s.world)

is_complete(s) ==
    check_termination(s) \/ s.world.current_tick >= s.cfg.max_ticks

\* run(), up to its loop
run_start(s) == [s EXCEPT !.metrics = NewMetrics, !.sim.pc = "loop"]

\* the test of the while loop of run()
loop_test(s) ==
    [s EXCEPT !.sim.pc = IF check_termination(s) THEN "finish" ELSE "receive"]

\* one call of step(); a call on a complete simulation changes nothing
step_call(s) ==
    IF is_complete(s) THEN s ELSE [s EXCEPT !.sim.pc = "receive"]

do_receive(s) ==
    [receive_and_update_local_state(s) EXCEPT !.sim.pc = "plan", !.sim.planned = {}]

\* one task of plan_agent_moves; the phase ends when the last task is joined
do_plan_task(s, i) ==
    [plan_task(s, i) EXCEPT
        !.sim.planned = @ \cup {i},
        !.sim.pc = IF s.sim.planned \cup {i} = 1..Len(s.ctrl)
                       THEN "broadcast" ELSE "plan"]

do_broadcast(s) == [broadcast_intents(s) EXCEPT !.sim.pc = "validate"]

do_validate(s) == [validate_pre_execution_conflicts(s) EXCEPT !.sim.pc = "deadlocks"]

do_deadlocks(s) == [detect_and_resolve_deadlocks(s) EXCEPT !.sim.pc = "execute"]

do_execute(s) == [execute_moves(s) EXCEPT !.sim.pc = "collisions"]

\* the collision audit and the trace that ends step_internal
do_collisions(s) ==
    [record_tick_trace(detect_and_handle_collisions(s)) EXCEPT !.sim.pc = "advance"]

\* variant: the loop of run() without its exit on max_ticks
run_advance_no_exit(s) ==
    [s EXCEPT !.world = advance_tick(@), !.sim.pc = "loop"]

\* advance_tick and the exit test of the loop of run()
run_advance(s) ==
    [s EXCEPT !.world = advance_tick(@),
              !.sim.pc = IF s.world.current_tick + 1 >= s.cfg.max_ticks
                             THEN "finish" ELSE "loop"]

\* advance_tick and the copy to current_tick_ that end step()
step_advance(s) ==
    [s EXCEPT !.world = advance_tick(@),
              !.sim.current_tick_ = s.world.current_tick + 1,
              !.sim.pc = "idle"]

\* run() after its loop
run_finish(s) ==
    [s EXCEPT !.metrics.makespan = s.world.current_tick,
              !.metrics.collision_detected = @ \/ detect_collisions(s.world) # <<>>,
              !.sim.pc = "done"]

----------------------------------------------------------------------------
(* The simulator: one run of run(), or a sequence of calls of step(), on   *)
(* a world the initial state draws.                                        *)

\* maps and agents (start, goal) of the runs
Scenarios ==
    { [width |-> 2, height |-> 1, obst |-> {},
       spots |-> << <<<<0, 0>>, <<1, 0>>>>, <<<<1, 0>>, <<0, 0>>>> >>],
      [width |-> 4, height |-> 1, obst |-> {},
       spots |-> << <<<<2, 0>>, <<1, 0>>>>, <<<<0, 0>>, <<3, 0>>>> >>],
      [width |-> 3, height |-> 2, obst |-> {},
       spots |-> << <<<<0, 0>>, <<2, 0>>>>, <<<<2, 1>>, <<0, 1>>>>,
                    <<<<1, 1>>, <<1, 0>>>> >>],
      [width |-> 3, height |-> 2, obst |-> {<<1, 1>>},
       spots |-> << <<<<0, 0>>, <<2, 0>>>>, <<<<2, 1>>, <<0, 1>>>> >>] }

\* the ways to draw distinct identifiers for n agents
IdDraws(n) ==
    {ids \in [1..n -> AgentIds] : \A i, j \in 1..n : i # j => ids[i] # ids[j]}

\* the world WorldBuilder::build makes of a scenario and drawn identifiers
BuildWorld(sc, ids) ==
    [width |-> sc.width, height |-> sc.height, obst |-> sc.obst,
     agents |-> [k \in 1..Len(sc.spots) |->
                    [id |-> ids[k], pos |-> sc.spots[k][1], goal |-> sc.spots[k][2],
                     at_goal |-> FALSE, collision_stopped |-> FALSE]],
     current_tick |-> 0]

\* network parameters: drop_probability in percent, latencies in ms
Reliable == [drop_probability |-> 0, mean_latency_ms |-> 0, jitter_ms |-> 0]
Lossy == [drop_probability |-> 30, mean_latency_ms |-> 100, jitter_ms |-> 50]

Configs ==
    { [max_ticks |-> m, driver |-> d, network_params |-> Reliable, seed |-> 1] :
        m \in {0, 2, MaxTicksBound}, d \in {"run", "step"} }
    \cup
    { [max_ticks |-> MaxTicksBound, driver |-> "run", network_params |-> Lossy,
       seed |-> sd] : sd \in Seeds }

\* a simulator after construction and initialize()
NewSimulation(sc, ids, c) ==
    [world |-> BuildWorld(sc, ids),
     ctrl |-> [k \in 1..Len(sc.spots) |-> NewController(BuildWorld(sc, ids).agents[k])],
     net |-> NewNetwork,
     metrics |-> NewMetrics,
     sim |-> [pc |-> "idle", planned |-> {}, current_tick_ |-> 0],
     cfg |-> c]

\* the planner harness at rest
NoPlan == [pc |-> "off"]

State == [world |-> world, ctrl |-> ctrl, net |-> net, metrics |-> metrics,
          sim |-> sim, cfg |-> cfg]

Becomes(s) ==
    /\ world' = s.world
    /\ ctrl' = s.ctrl
    /\ net' = s.net
    /\ metrics' = s.metrics
    /\ sim' = s.sim
    /\ cfg' = s.cfg
    /\ UNCHANGED <<twin, pl>>

Init ==
    /\ \E sc \in Scenarios, c \in Configs :
          \E ids \in IdDraws(Len(sc.spots)) :
             LET s == NewSimulation(sc, ids, c)
             IN  /\ world = s.world
                 /\ ctrl = s.ctrl
                 /\ net = s.net
                 /\ metrics = s.metrics
                 /\ sim = s.sim
                 /\ cfg = s.cfg
    /\ twin = <<>>
    /\ pl = NoPlan

RunStart == sim.pc = "idle" /\ cfg.driver = "run" /\ Becomes(run_start(State))

LoopTest == sim.pc = "loop" /\ Becomes(loop_test(State))

StepCall == sim.pc = "idle" /\ cfg.driver = "step" /\ Becomes(step_call(State))

Receive == sim.pc = "receive" /\ Becomes(do_receive(State))

PlanTask(i) == sim.pc = "plan" /\ i \notin sim.planned /\ Becomes(do_plan_task(State, i))

Broadcast == sim.pc = "broadcast" /\ Becomes(do_broadcast(State))

Validate == sim.pc = "validate" /\ Becomes(do_validate(State))

Deadlocks == sim.pc = "deadlocks" /\ Becomes(do_deadlocks(State))

Execute == sim.pc = "execute" /\ Becomes(do_execute(State))

Collisions == sim.pc = "collisions" /\ Becomes(do_collisions(State))

RunAdvance == sim.pc = "advance" /\ cfg.driver = "run" /\ Becomes(run_advance(State))

StepAdvance == sim.pc = "advance" /\ cfg.driver = "step" /\ Becomes(step_advance(State))

RunFinish == sim.pc = "finish" /\ Becomes(run_finish(State))

Next ==
    \/ RunStart
    \/ LoopTest
    \/ StepCall
    \/ Receive
    \/ \E i \in 1..Len(ctrl) : PlanTask(i)
    \/ Broadcast
    \/ Validate
    \/ Deadlocks
    \/ Execute
    \/ Collisions
    \/ RunAdvance
    \/ StepAdvance
    \/ RunFinish

Spec == Init /\ [][Next]_vars

----------------------------------------------------------------------------
(* Two runs of run() side by side, on the same map, agents, seed, network  *)
(* parameters and max_ticks; the identifiers are drawn once per run.       *)

\* the step a simulator takes next; the plan tasks touch disjoint
\* controllers, so they are taken in the order of the controllers
step_sim(s) ==
    CASE s.sim.pc = "idle" ->
             IF s.cfg.driver = "run" THEN run_start(s) ELSE step_call(s)
      [] s.sim.pc = "loop" -> loop_test(s)
      [] s.sim.pc = "receive" -> do_receive(s)
      [] s.sim.pc = "plan" ->
             do_plan_task(s, CHOOSE i \in 1..Len(s.ctrl) :
                                 /\ i \notin s.sim.planned
                                 /\ \A j \in 1..(i - 1) : j \in s.sim.planned)
      [] s.sim.pc = "broadcast" -> do_broadcast(s)
      [] s.sim.pc = "validate" -> do_validate(s)
      [] s.sim.pc = "deadlocks" -> do_deadlocks(s)
      [] s.sim.pc = "execute" -> do_execute(s)
      [] s.sim.pc = "collisions" -> do_collisions(s)
      [] s.sim.pc = "advance" ->
             IF s.cfg.driver = "run" THEN run_advance(s) ELSE step_advance(s)
      [] s.sim.pc = "finish" -> run_finish(s)
      [] OTHER -> s

TwinConfigs == {c \in Configs : c.driver = "run" /\ c.max_ticks > 0}

TwinInit ==
    /\ \E sc \in Scenarios, c \in TwinConfigs :
          \E ids1, ids2 \in IdDraws(Len(sc.spots)) :
             twin = <<NewSimulation(sc, ids1, c), NewSimulation(sc, ids2, c)>>
    /\ world = [width |-> 0, height |-> 0, obst |-> {}, agents |-> <<>>,
                current_tick |-> 0]
    /\ ctrl = <<>>
    /\ net = NewNetwork
    /\ metrics = NewMetrics
    /\ sim = [pc |-> "off"]
    /\ cfg = [max_ticks |-> 0]
    /\ pl = NoPlan

TwinStep ==
    /\ \E k \in 1..2 : twin[k].sim.pc # "done"
    /\ twin' = <<step_sim(twin[1]), step_sim(twin[2])>>
    /\ UNCHANGED <<world, ctrl, net, metrics, sim, cfg, pl>>

TwinNext == TwinStep

SpecTwin == TwinInit /\ [][TwinNext]_vars

----------------------------------------------------------------------------
(* Harness for single calls of the planner: the inputs of one call of      *)
(* plan_path are drawn by the initial state and PlanCall applies it.       *)

\* the grids of the planner calls: an open 3x2 grid and one with an obstacle
PlanWorlds ==
    { [width |-> 3, height |-> 2, obst |-> {}],
      [width |-> 3, height |-> 2, obst |-> {<<1, 1>>}] }

PlanStarts == { <<0, 0>>, <<1, 1>>, <<3, 0>> }
PlanGoals == { <<2, 0>>, <<1, 1>>, <<0, -1>>, <<0, 0>> }
PlanStartTicks == {0, 2}
PlanCells == { <<0, 0>>, <<1, 0>>, <<2, 0>> }

PlanEntries(start_time) ==
    { ReservationEntry(c, t, a) :
        c \in PlanCells, t \in start_time..(start_time + 2), a \in AgentIds }

RECURSIVE TablesUpTo(_, _)
\* the tables that at most n successful inserts build
TablesUpTo(start_time, n) ==
    IF n = 0
        THEN {{}}
        ELSE LET smaller == TablesUpTo(start_time, n - 1)
             IN  smaller \cup
                 { insert(T, e) : T \in smaller, e \in PlanEntries(start_time) }

PlanTables(start_time) == TablesUpTo(start_time, MaxEntries)

PlannerInit ==
    /\ \E w \in PlanWorlds, start \in PlanStarts, goal \in PlanGoals,
          start_time \in PlanStartTicks :
          \E T \in PlanTables(start_time) :
             pl = [pc |-> "input", w |-> w, start |-> start, goal |-> goal,
                   reservations |-> T, agent_id |-> 1, start_time |-> start_time,
                   path |-> <<>>]
    /\ world = [width |-> 0, height |-> 0, obst |-> {}, agents |-> <<>>, current_tick |-> 0]
    /\ ctrl = <<>>
    /\ net = NewNetwork
    /\ metrics = [total_messages |-> 0]
    /\ sim = [pc |-> "off"]
    /\ cfg = [max_ticks |-> 0]
    /\ twin = <<>>

PlanCall ==
    /\ pl.pc = "input"
    /\ pl' = [pl EXCEPT
                !.path = plan_path(pl.w, pl.start, pl.goal, pl.reservations,
                                   pl.agent_id, pl.start_time),
                !.pc = "planned"]
    /\ UNCHANGED <<world, ctrl, net, metrics, sim, cfg, twin>>

PlannerNext == PlanCall

SpecPlanner == PlannerInit /\ [][PlannerNext]_vars

----------------------------------------------------------------------------
(* Properties of the planner *)

Adjacent4(a, b) == Abs(a[1] - b[1]) + Abs(a[2] - b[2]) = 1

Planned == pl.pc = "planned"

\* C8: plan_path returns the empty path, or a path from start to goal over
\* in-bounds non-obstacle cells whose consecutive cells are equal or
\* 4-adjacent; it returns the empty path when start or goal is an obstacle
\* or out of bounds.
C8_PlannerSound ==
    Planned =>
        /\ \/ pl.path = <<>>
           \/ /\ pl.path[1] = pl.start
              /\ pl.path[Len(pl.path)] = pl.goal
              /\ \A i \in 1..Len(pl.path) :
                    /\ is_valid_cell(pl.w, pl.path[i])
                    /\ pl.path[i] \notin pl.w.obst
              /\ \A i \in 2..Len(pl.path) :
                    \/ pl.path[i] = pl.path[i - 1]
                    \/ Adjacent4(pl.path[i], pl.path[i - 1])
        /\ ( \/ ~is_valid_cell(pl.w, pl.start) \/ pl.start \in pl.w.obst
             \/ ~is_valid_cell(pl.w, pl.goal) \/ pl.goal \in pl.w.obst )
           => pl.path = <<>>

\* a returned path that both waits and moves
C8_Witness ==
    /\ Planned
    /\ Len(pl.path) >= 3
    /\ \E i \in 2..Len(pl.path) : pl.path[i] = pl.path[i - 1]
    /\ \E i \in 2..Len(pl.path) : Adjacent4(pl.path[i], pl.path[i - 1])

OwnedByOther(cell, t) ==
    \E a \in AgentIds :
        a # pl.agent_id /\ ReservationEntry(cell, t, a) \in pl.reservations

C10_NoHeadOnSwap ==
    Planned =>
        \A i \in 2..Len(pl.path) :
            pl.path[i] # pl.path[i - 1] =>
                ~ \E b \in AgentIds :
                    /\ b # pl.agent_id
                    /\ ReservationEntry(pl.path[i], pl.start_time + (i - 2), b)
                          \in pl.reservations
                    /\ ReservationEntry(pl.path[i - 1], pl.start_time + (i - 1), b)
                          \in pl.reservations

\* a path returned although a peer swaps along the direct first move
C10_Witness ==
    /\ Planned
    /\ pl.path # <<>>
    /\ pl.start = <<0, 0>> /\ pl.goal = <<2, 0>>
    /\ \E b \in AgentIds :
          /\ b # pl.agent_id
          /\ ReservationEntry(<<1, 0>>, pl.start_time, b) \in pl.reservations
          /\ ReservationEntry(<<0, 0>>, pl.start_time + 1, b) \in pl.reservations

----------------------------------------------------------------------------
(* Properties of the simulator *)

Agents == 1..NumAgents(world)

\* the cells of the agents in the k-th recorded trace
TracePos(m, k) ==
    [j \in 1..Len(m.traces[k].agent_positions) |-> m.traces[k].agent_positions[j][2]]

\* C1: at the end of the execute phase of every tick no two distinct agents
\* occupy the same cell.
C1_NoSharedCellAfterExecute ==
    sim.pc = "collisions" =>
        \A i, j \in Agents : i # j => world.agents[i].pos # world.agents[j].pos

\* C2: no two distinct agents exchange their cells between the ends of two
\* consecutive ticks.
C2_NoCellExchange ==
    \A k \in 2..Len(metrics.traces) :
        \A i, j \in 1..Len(TracePos(metrics, k)) :
            i # j =>
                ~ /\ TracePos(metrics, k)[i] = TracePos(metrics, k - 1)[j]
                  /\ TracePos(metrics, k)[j] = TracePos(metrics, k - 1)[i]

\* C3: in every reachable state, after every phase, every agent whose
\* at_goal flag is true stands on its goal cell.
C3_AtGoalOnGoal ==
    \A i \in Agents : world.agents[i].at_goal => world.agents[i].pos = world.agents[i].goal

\* starts and goals of the built world were pairwise distinct; the goals of
\* all scenarios are reachable from the starts on the map
StartsAndGoalsDistinct ==
    \E sc \in Scenarios :
        /\ Len(sc.spots) = NumAgents(world)
        /\ \A i \in Agents : world.agents[i].goal = sc.spots[i][2]
        /\ sc.width = world.width /\ sc.obst = world.obst
        /\ \A i, j \in Agents :
              i # j => /\ sc.spots[i][1] # sc.spots[j][1]
                       /\ sc.spots[i][2] # sc.spots[j][2]

\* C4: on a reliable network without latency, a run of run() that ends
\* before max_ticks ends with every agent on its goal cell.
C4_RunEndsOnGoals ==
    ( /\ sim.pc = "done"
      /\ cfg.driver = "run"
      /\ cfg.network_params = Reliable
      /\ StartsAndGoalsDistinct
      /\ world.current_tick < cfg.max_ticks )
    => \A i \in Agents : world.agents[i].pos = world.agents[i].goal

\* the tick counter changes only in the advance of a tick, by one, and the
\* loop of run() is left by the advance that reaches max_ticks
TickStep ==
    /\ world'.current_tick # world.current_tick =>
          sim.pc = "advance" /\ world'.current_tick = world.current_tick + 1
    /\ sim.pc = "advance" /\ cfg.driver = "run" =>
          /\ world'.current_tick = world.current_tick + 1
          /\ world'.current_tick >= cfg.max_ticks => sim'.pc = "finish"
    /\ sim.pc = "loop" /\ sim'.pc = "receive" => ~all_agents_at_goal(world)

\* the phases of one iteration of the loop
InIteration ==
    sim.pc \in {"receive", "plan", "broadcast", "validate", "deadlocks",
                "execute", "collisions", "advance"}

\* an iteration of run() is under way only at tick 0 or below max_ticks, and
\* the iterations made so far are as many as the ticks counted
IterationsBounded ==
    cfg.driver = "run" =>
        /\ InIteration => world.current_tick = 0 \/ world.current_tick < cfg.max_ticks
        /\ sim.pc \in {"loop", "finish", "done"} =>
              Len(metrics.traces) = world.current_tick
        /\ world.current_tick <= Max(1, cfg.max_ticks)

\* C5: run() terminates: the tick counter grows by exactly one per loop
\* iteration, the loop is left no later than the iteration in which
\* current_tick reaches max_ticks, and so the iterations are at most
\* max(1, max_ticks).
C5_RunTerminates == [][TickStep]_vars /\ []IterationsBounded

\* a run that left the loop because current_tick reached max_ticks
C5_Witness ==
    /\ sim.pc = "done"
    /\ cfg.driver = "run"
    /\ cfg.max_ticks > 0
    /\ world.current_tick = cfg.max_ticks
    /\ ~all_agents_at_goal(world)

\* C6: a tick is executed only in a state where some agent is not at_goal
\* and current_tick < max_ticks, and the makespan run() records is at most
\* max_ticks.
C6_TickOnlyWhileIncomplete ==
    /\ sim.pc = "receive" =>
          ~all_agents_at_goal(world) /\ world.current_tick < cfg.max_ticks
    /\ sim.pc = "done" => metrics.makespan <= cfg.max_ticks

\* the outcome of a run that the claim compares
Outcome(s) ==
    [makespan |-> s.metrics.makespan,
     dropped_messages |-> s.metrics.dropped_messages,
     collision_detected |-> s.metrics.collision_detected,
     positions |-> [k \in 1..Len(s.metrics.traces) |-> TracePos(s.metrics, k)]]

\* C7: two runs of the same map, agents, seed, network parameters and
\* max_ticks end with the same makespan, dropped-message count, collision
\* flag and per-tick agent positions, whatever identifiers were drawn.
C7_SameOutcome ==
    (twin # <<>> /\ twin[1].sim.pc = "done" /\ twin[2].sim.pc = "done")
        => Outcome(twin[1]) = Outcome(twin[2])

----------------------------------------------------------------------------
(* Reservation table harness: two operations in a row on a table that     *)
(* successful inserts built.  The operations are insert, the planner's    *)
(* commit_reservations and clear_reservations, and the STATE_SYNC merge.  *)

TableCells == { <<0, 0>>, <<1, 0>> }
TableAgents == {1, 2}
TableStartTicks == {0, 1}

TableEntries ==
    { ReservationEntry(c, t, a) : c \in TableCells, t \in 1..2, a \in TableAgents }

TablePaths ==
    { <<>>, << <<0, 0>> >>, << <<0, 0>>, <<1, 0>> >>, << <<1, 0>>, <<1, 0>>, <<0, 0>> >> }

\* the clocks of the receiver and of the STATE_SYNC message
TableClocks ==
    { [mine |-> <<>>, theirs |-> <<>>],
      [mine |-> (1 :> 1 @@ 2 :> 1), theirs |-> (1 :> 2 @@ 2 :> 0)],
      [mine |-> (1 :> 1), theirs |-> (2 :> 3)] }

RECURSIVE TablesFrom(_, _)
\* the tables that at most n successful inserts of the entries build
TablesFrom(entries, n) ==
    IF n = 0
        THEN {{}}
        ELSE LET smaller == TablesFrom(entries, n - 1)
             IN  smaller \cup { insert(T, e) : T \in smaller, e \in entries }

NoOp == [op |-> "none", agent_id |-> nil_uuid, key |-> <<>>, path |-> <<>>,
         start_time |-> 0, inserted |-> FALSE]

HarnessIdle ==
    /\ ctrl = <<>>
    /\ net = NewNetwork
    /\ metrics = [total_messages |-> 0]
    /\ sim = [pc |-> "off"]
    /\ cfg = [max_ticks |-> 0]
    /\ twin = <<>>

TableInit ==
    /\ \E T \in TablesFrom(TableEntries, MaxEntries) :
          pl = [pc |-> "table", before |-> T, reservations |-> T,
                last |-> NoOp, earlier |-> NoOp]
    /\ world = [width |-> 0, height |-> 0, obst |-> {}, agents |-> <<>>, current_tick |-> 0]
    /\ HarnessIdle

\* the table after the operation, with the operation as the last one
Applied(after, operation) ==
    /\ pl.earlier = NoOp
    /\ pl' = [pl EXCEPT !.before = pl.reservations,
                        !.reservations = after,
                        !.earlier = pl.last,
                        !.last = operation]
    /\ UNCHANGED <<world, ctrl, net, metrics, sim, cfg, twin>>

TableInsert ==
    \E e \in TableEntries :
        Applied(insert(pl.reservations, e),
                [NoOp EXCEPT !.op = "insert", !.agent_id = e.agent_id, !.key = e.key,
                             !.inserted = ~contains_key(pl.reservations, e.key)])

TableCommit ==
    \E a \in TableAgents, path \in TablePaths, start_time \in TableStartTicks :
        Applied(commit_reservations(path, a, pl.reservations, start_time),
                [NoOp EXCEPT !.op = "commit", !.agent_id = a, !.path = path,
                             !.start_time = start_time])

TableClear ==
    \E a \in TableAgents :
        Applied(clear_reservations(a, pl.reservations),
                [NoOp EXCEPT !.op = "clear", !.agent_id = a])

TableMerge ==
    \E incoming \in TablesFrom(TableEntries, 1), clocks \in TableClocks :
        Applied(merge_state([local_reservations |-> pl.reservations,
                             vector_clock |-> clocks.mine],
                            [full_state |-> <<incoming>>,
                             vector_clock |-> clocks.theirs]),
                [NoOp EXCEPT !.op = "merge"])

TableNext == TableInsert \/ TableCommit \/ TableClear \/ TableMerge

SpecTable == TableInit /\ [][TableNext]_vars

----------------------------------------------------------------------------
(* Properties of the reservation table *)

Owned(reservations, agent_id) == {e \in reservations : e.agent_id = agent_id}

Keys(reservations) == {e.key : e \in reservations}

\* C11: a reservation table holds at most one entry per key (x, y, t), and
\* an insert under a key that is present fails and leaves the table, with the
\* entry and the owner it holds, as it was; this holds after any sequence of
\* insert, commit, clear and STATE_SYNC merge.
C11_UniqueKeys ==
    /\ Cardinality(Keys(pl.reservations)) = Cardinality(pl.reservations)
    /\ (pl.last.op = "insert" /\ ~pl.last.inserted)
          => /\ pl.reservations = pl.before
             /\ contains_key(pl.before, pl.last.key)
    /\ (pl.last.op = "insert" /\ pl.last.inserted)
          => pl.reservations = pl.before \cup {[key |-> pl.last.key, agent_id |-> pl.last.agent_id]}

\* a refused insert for one agent under a key another agent holds, after a merge
C11_Witness ==
    /\ pl.earlier.op = "merge"
    /\ pl.last.op = "insert" /\ ~pl.last.inserted
    /\ \E e \in pl.reservations :
          e.key = pl.last.key /\ e.agent_id # pl.last.agent_id
    /\ Cardinality(pl.reservations) > 1

\* C12: after commit_reservations and then clear_reservations for the same
\* agent the table holds no entry of the agent, and every entry the agent
\* owns after a commit is one the path of that commit produces, so that a
\* second commit leaves nothing of the first path that the second path does
\* not produce as well.
C12_CommitReplaces ==
    /\ (pl.last.op = "clear" /\ pl.earlier.op = "commit"
           /\ pl.last.agent_id = pl.earlier.agent_id)
          => Owned(pl.reservations, pl.last.agent_id) = {}
    /\ (pl.last.op = "commit")
          => Owned(pl.reservations, pl.last.agent_id)
                \subseteq commit_entries(pl.last.path, pl.last.agent_id, pl.last.start_time)

\* a second commit of the agent, of another path, after a first that left entries
C12_Witness ==
    /\ pl.last.op = "commit" /\ pl.earlier.op = "commit"
    /\ pl.last.agent_id = pl.earlier.agent_id
    /\ pl.last.path # pl.earlier.path
    /\ Owned(pl.before, pl.last.agent_id) # {}
    /\ Owned(pl.before, pl.last.agent_id) \ pl.reservations # {}
    /\ Owned(pl.reservations, pl.last.agent_id) # {}

\* the keys commit_reservations inserts under
Involved(path, start_time) ==
    { ReservationKey(path[i], start_time + (i - 1)) : i \in 1..Len(path) }
    \cup { ReservationKey(path[Len(path)], t) :
             t \in (start_time + Len(path) - 1)..(start_time + Len(path) + 99) }

\* C13: after commit_reservations(path, A, table, s) of a non-empty path of
\* length n into a table in which no other agent owns a key involved, A owns
\* (path[i], s + i) for every i < n and (path[n-1], t) for every t from
\* s + n - 1 through s + n + 99.
C13_CommitOwnsPathAndWindow ==
    (/\ pl.last.op = "commit" /\ pl.last.path # <<>>
     /\ \A e \in pl.before :
           e.agent_id # pl.last.agent_id
              => e.key \notin Involved(pl.last.path, pl.last.start_time))
      => \A k \in Involved(pl.last.path, pl.last.start_time) :
            [key |-> k, agent_id |-> pl.last.agent_id] \in pl.reservations

\* a commit of a path of three cells into a table where another agent holds entries
C13_Witness ==
    /\ pl.last.op = "commit" /\ Len(pl.last.path) = 3
    /\ \E e \in pl.before : e.agent_id # pl.last.agent_id
    /\ \A e \in pl.before :
           e.agent_id # pl.last.agent_id
              => e.key \notin Involved(pl.last.path, pl.last.start_time)
    /\ [key |-> ReservationKey(pl.last.path[3], pl.last.start_time + 3 + 99),
        agent_id |-> pl.last.agent_id] \in pl.reservations

----------------------------------------------------------------------------
(* Network harness: agents send and call receive in any order while the   *)
(* tick advances.  Every message carries a serial number, so that its     *)
(* copies in flight and its deliveries can be told apart.                 *)

MaxSends == 3
MaxNetTick == 3

NetAgents == 1..3

NetConfigs ==
    { [max_ticks |-> 0, driver |-> "none", network_params |-> Reliable, seed |-> 1] }
    \cup
    { [max_ticks |-> 0, driver |-> "none", network_params |-> Lossy, seed |-> sd] :
        sd \in Seeds }

NoReceive == [agent_id |-> nil_uuid, tick |-> 0, ready_messages |-> <<>>,
              owed |-> {}, had |-> {}]

NetInit ==
    /\ net = NewNetwork
    /\ cfg \in NetConfigs
    /\ pl = [pc |-> "net", tick |-> 0, accepted |-> {}, delivered |-> {},
             last |-> NoReceive]
    /\ world = [width |-> 0, height |-> 0, obst |-> {}, agents |-> <<>>, current_tick |-> 0]
    /\ ctrl = <<>>
    /\ metrics = [total_messages |-> 0]
    /\ sim = [pc |-> "off"]
    /\ twin = <<>>

\* send() of a message stamped with the tick; a message that is not dropped
\* is noted with the delivery tick it was queued under
NetSend ==
    \E a \in NetAgents :
        LET msg == [from |-> a, timestamp |-> pl.tick, serial |-> net.total_sent + 1]
            sent == send(net, msg, cfg)
        IN  /\ net.total_sent < MaxSends
            /\ net' = sent
            /\ pl' = [pl EXCEPT !.accepted =
                        @ \cup { sent.queue[k] : k \in
                                   {k \in 1..Len(sent.queue) :
                                       sent.queue[k].msg.serial = msg.serial} }]
            /\ UNCHANGED <<world, ctrl, metrics, sim, cfg, twin>>

\* receive(agent, tick): owed are the messages of other senders that are due
\* and were not yet returned to the agent, had the ones already returned
NetReceive ==
    \E a \in NetAgents :
        LET got == receive(net, a, pl.tick)
            had == {q.msg.serial : q \in {q \in pl.accepted : <<q.msg.serial, a>> \in pl.delivered}}
            due == {q \in pl.accepted : q.msg.from # a /\ q.delivery_tick <= pl.tick}
        IN  /\ net' = [net EXCEPT !.queue = got.queue]
            /\ pl' = [pl EXCEPT
                        !.delivered = @ \cup { <<got.ready_messages[k].serial, a>> :
                                                 k \in 1..Len(got.ready_messages) },
                        !.last = [agent_id |-> a, tick |-> pl.tick,
                                  ready_messages |-> got.ready_messages,
                                  owed |-> {q.msg.serial : q \in due} \ had,
                                  had |-> had]]
            /\ UNCHANGED <<world, ctrl, metrics, sim, cfg, twin>>

NetTick ==
    /\ pl.tick < MaxNetTick
    /\ pl' = [pl EXCEPT !.tick = @ + 1]
    /\ UNCHANGED <<world, ctrl, net, metrics, sim, cfg, twin>>

NetNext == NetSend \/ NetReceive \/ NetTick

SpecNet == NetInit /\ [][NetNext]_vars

----------------------------------------------------------------------------
(* Properties of the network *)

Returned == {pl.last.ready_messages[k].serial : k \in 1..Len(pl.last.ready_messages)}

\* the delivery tick the message was queued under
DeliveryTick(msg) == (CHOOSE q \in pl.accepted : q.msg.serial = msg.serial).delivery_tick

\* C14: every message that send() does not drop is delivered to every agent
\* other than its sender: the first receive of the agent at or after the
\* delivery tick returns it, whatever the order of the receive calls.
C14_DeliveredToEveryPeer == pl.last.owed \subseteq Returned

\* C15: every message receive(agent, t) returns was sent by another agent,
\* has a delivery tick of at most t and of at least its send tick plus one,
\* was not returned to the agent before, and the messages of one call are in
\* non-decreasing order of delivery tick; hence no message sent in tick t is
\* returned in tick t.
C15_ReceiveSound ==
    LET ready == pl.last.ready_messages
    IN  /\ \A k \in 1..Len(ready) :
              /\ ready[k].from # pl.last.agent_id
              /\ DeliveryTick(ready[k]) <= pl.last.tick
              /\ DeliveryTick(ready[k]) >= ready[k].timestamp + 1
              /\ ready[k].timestamp < pl.last.tick
              /\ ready[k].serial \notin pl.last.had
        /\ \A j, k \in 1..Len(ready) :
              j < k => /\ DeliveryTick(ready[j]) <= DeliveryTick(ready[k])
                       /\ ready[j].serial # ready[k].serial

\* one call returns messages of two delivery ticks, sent with latency
C15_Witness ==
    LET ready == pl.last.ready_messages
    IN  /\ Len(ready) >= 2
        /\ DeliveryTick(ready[1]) < DeliveryTick(ready[Len(ready)])
        /\ DeliveryTick(ready[Len(ready)]) > ready[Len(ready)].timestamp + 1
        /\ net.total_dropped > 0

----------------------------------------------------------------------------
(* Properties of the trace and of the collision flag *)

\* two agents stand on one cell
SharedCell(w) ==
    \E i, j \in 1..NumAgents(w) : i # j /\ w.agents[i].pos = w.agents[j].pos

\* C16: the trace record of a tick carries messages_sent equal to the number
\* of send calls of the broadcast phase of the tick, active_agents equal to
\* the number of agents not at_goal after the collision audit, and one
\* (agent, position) pair per agent.  Stated for the first tick, where the
\* send calls of the tick are all the send calls made.
C16_TraceRecord ==
    (sim.pc = "advance" /\ Len(metrics.traces) = 1) =>
        LET trace == metrics.traces[1]
        IN  /\ trace.messages_sent = net.total_sent
            /\ trace.active_agents = count_active_agents(world)
            /\ Len(trace.agent_positions) = NumAgents(world)
            /\ \A k \in 1..NumAgents(world) :
                  trace.agent_positions[k] = <<world.agents[k].id, world.agents[k].pos>>

\* the flag is raised by the audit and by the end of run() when two agents
\* share a cell, by nothing else, and stays raised; the audit is followed by
\* the advance of the tick, and the run leaves its loop by the exit test only
CollisionRecorded ==
    /\ (sim.pc \in {"collisions", "finish"} /\ SharedCell(world))
          => metrics'.collision_detected
    /\ (metrics'.collision_detected /\ ~metrics.collision_detected)
          => (sim.pc \in {"collisions", "finish"} /\ SharedCell(world))
    /\ (metrics.collision_detected /\ sim.pc # "idle")
          => metrics'.collision_detected
    /\ (sim.pc = "idle" /\ cfg.driver = "run") => ~metrics'.collision_detected
    /\ sim.pc = "collisions" => sim'.pc = "advance"
    /\ (sim.pc = "advance" /\ cfg.driver = "run")
          => (sim'.pc = "finish" <=> world'.current_tick >= cfg.max_ticks)
    /\ (sim.pc = "loop" /\ cfg.driver = "run")
          => (sim'.pc = "finish" <=> all_agents_at_goal(world))

\* C17: the collision flag of the metrics is true when run() returns exactly
\* when two agents shared a cell at the collision audit of some tick of the
\* run or at its end, and recording a collision never ends the run early.
C17_CollisionFlag == [][CollisionRecorded]_vars

\* a run that met a collision, went on and ended with the agents apart
C17_Witness ==
    /\ sim.pc = "done" /\ cfg.driver = "run"
    /\ metrics.collision_detected
    /\ ~SharedCell(world)
    /\ all_agents_at_goal(world)

----------------------------------------------------------------------------
(* World harness: any sequence of WorldManager::move_agent calls on a     *)
(* world WorldBuilder made, with the last call and the world before it.   *)

\* the world of the harness: the 3x2 map of Scenarios with an obstacle
WorldScenarios == {sc \in Scenarios : sc.obst # {}}

\* targets: the cells of the map and the cells around it
MoveCells == { <<x, y>> : x \in -1..3, y \in -1..2 }

\* the two agents of the world and an identifier it does not hold
MoveIds == AgentIds

WorldInit ==
    /\ \E sc \in WorldScenarios : \E ids \in IdDraws(Len(sc.spots)) :
          /\ world = BuildWorld(sc, ids)
          /\ pl = [pc |-> "world",
                   last |-> [agent_id |-> nil_uuid, new_pos |-> <<0, 0>>,
                             moved |-> FALSE, called |-> FALSE,
                             before |-> BuildWorld(sc, ids)]]
    /\ HarnessIdle

WorldMove ==
    \E a \in MoveIds, c \in MoveCells :
        LET call == move_agent(world, a, c)
        IN  /\ world' = call.world
            /\ pl' = [pl EXCEPT !.last = [agent_id |-> a, new_pos |-> c,
                                          moved |-> call.moved, called |-> TRUE,
                                          before |-> world]]
            /\ UNCHANGED <<ctrl, net, metrics, sim, cfg, twin>>

WorldNext == WorldMove

SpecWorld == WorldInit /\ [][WorldNext]_vars

----------------------------------------------------------------------------
(* Properties of the world *)

\* the grounds on which the claim has move_agent refuse
Refused(w, agent_id, cell) ==
    \/ \A i \in 1..NumAgents(w) : w.agents[i].id # agent_id
    \/ cell[1] < 0 \/ cell[1] >= w.width \/ cell[2] < 0 \/ cell[2] >= w.height
    \/ cell \in w.obst
    \/ \E i \in 1..NumAgents(w) : w.agents[i].id # agent_id /\ w.agents[i].pos = cell

C19_CollisionAfterTwoMoves ==
    [][ LET w == pl.last.before
            c == pl'.last.new_pos
        IN  ( /\ pl.last.called
              /\ pl.last.agent_id = w.agents[1].id
              /\ pl'.last.agent_id = w.agents[2].id
              /\ pl.last.new_pos = c
              /\ is_valid_cell(w, c) /\ c \notin w.obst
              /\ ~is_occupied(w, c, nil_uuid) )
            => /\ detect_collisions(w) = <<>>
               /\ Len(detect_collisions(world')) = 2 ]_vars

----------------------------------------------------------------------------
(* Properties of the planning phase *)

\* the orders in which n tasks can run
Orders(n) == {o \in [1..n -> 1..n] : \A i, j \in 1..n : i # j => o[i] # o[j]}

RECURSIVE RunTasks(_, _, _)
\* the planning tasks run one after the other in the order given, from the k-th on
RunTasks(s, order, k) ==
    IF k > Len(order)
        THEN s
        ELSE RunTasks(do_plan_task(s, order[k]), order, k + 1)

\* every order of the tasks leaves the state the order of the controllers leaves
SameForEveryOrder ==
    (sim.pc = "plan" /\ sim.planned = {}) =>
        \A order \in Orders(Len(ctrl)) :
            RunTasks(State, order, 1) = RunTasks(State, [k \in 1..Len(ctrl) |-> k], 1)

\* the broadcast phase starts when every task has been joined, not before
TasksJoined ==
    /\ sim.pc = "broadcast" => sim.planned = 1..Len(ctrl)
    /\ sim.pc = "plan" => sim.planned # 1..Len(ctrl)

\* a task writes its own controller and adds to the replan counter, nothing else
TaskWritesOwn ==
    sim.pc = "plan" =>
        \E i \in (1..Len(ctrl)) \ sim.planned :
            /\ sim'.planned = sim.planned \cup {i}
            /\ \A j \in 1..Len(ctrl) : j # i => ctrl'[j] = ctrl[j]
            /\ Len(ctrl') = Len(ctrl)
            /\ ctrl'[i].id = ctrl[i].id
            /\ world' = world /\ net' = net /\ cfg' = cfg
            /\ metrics'.total_replans >= metrics.total_replans
            /\ metrics' = [metrics EXCEPT !.total_replans = metrics'.total_replans]

----------------------------------------------------------------------------
(* The head-on corridor: the 1x5 grid with A going (0,0) -> (4,0) and B   *)
(* going (4,0) -> (0,0), on the reliable network, for at most 20 ticks.   *)

CorridorScenario ==
    [width |-> 5, height |-> 1, obst |-> {},
     spots |-> << <<<<0, 0>>, <<4, 0>>>>, <<<<4, 0>>, <<0, 0>>>> >>]

CorridorConfigs ==
    { [max_ticks |-> 20, driver |-> d, network_params |-> Reliable, seed |-> 1] :
        d \in {"run", "step"} }

CorridorInit ==
    /\ \E c \in CorridorConfigs : \E ids \in IdDraws(2) :
          LET s == NewSimulation(CorridorScenario, ids, c)
          IN  /\ world = s.world
              /\ ctrl = s.ctrl
              /\ net = s.net
              /\ metrics = s.metrics
              /\ sim = s.sim
              /\ cfg = s.cfg
    /\ twin = <<>>
    /\ pl = NoPlan

SpecCorridor == CorridorInit /\ [][Next]_vars

\* C21: on the 1x5 grid with A going (0,0) -> (4,0) and B going (4,0) ->
\* (0,0), no drops and zero latency, both agents reach their goals within 20
\* ticks, and at no tick do the two agents exchange cells.
C21_CorridorPass ==
    /\ \A k \in 2..Len(metrics.traces) :
          ~ /\ TracePos(metrics, k)[1] = TracePos(metrics, k - 1)[2]
            /\ TracePos(metrics, k)[2] = TracePos(metrics, k - 1)[1]
    /\ sim.pc = "done" =>
          /\ \A i \in Agents : world.agents[i].pos = world.agents[i].goal
          /\ metrics.makespan <= 20

----------------------------------------------------------------------------
(* Properties of the broadcast phase *)

\* the queued messages controller i sent in the current tick
SentNow(i) ==
    {k \in 1..Len(net.queue) :
        /\ net.queue[k].msg.from = ctrl[i].id
        /\ net.queue[k].msg.timestamp = world.current_tick}

PathSent(i) == {k \in SentNow(i) : net.queue[k].msg.type # "STATE_SYNC"}

SyncSent(i) == {k \in SentNow(i) : net.queue[k].msg.type = "STATE_SYNC"}

\* C22: in the broadcast phase of every tick every agent, agents at goal
\* included, sends exactly 3 copies of one path message stamped with its
\* vector clock; for an agent not at goal, not collision-stopped and with a
\* non-empty path the planned_path is current_path from path_index to the
\* end, for an agent at goal or collision-stopped it is the agent's cell 200
\* times, and the type is GOAL_REACHED exactly when the agent is at goal.
C22_PathAnnouncement ==
    sim.pc = "validate" =>
        \A i \in 1..Len(ctrl) :
            LET c == ctrl[i]
                a == AgentState(State, c)
                syncs == IF SyncSent(i) # {} THEN 1 ELSE 0
            IN  /\ cfg.network_params = Reliable => Cardinality(PathSent(i)) = 3
                /\ Cardinality(PathSent(i)) <= 3
                /\ \A k \in PathSent(i) :
                      LET m == net.queue[k].msg
                      IN  /\ m.type \in {"GOAL_REACHED", "PATH_ANNOUNCEMENT"}
                          /\ m.type = "GOAL_REACHED" <=> a.at_goal
                          /\ (a.at_goal \/ a.collision_stopped)
                                => m.planned_path = [n \in 1..200 |-> a.pos]
                          /\ (~a.at_goal /\ ~a.collision_stopped /\ c.current_path # <<>>)
                                => m.planned_path =
                                      SubSeq(c.current_path, c.path_index + 1,
                                             Len(c.current_path))
                          /\ m.vector_clock =
                                [c.vector_clock EXCEPT ![c.id] = c.local_clock - syncs]
                          /\ \A k2 \in PathSent(i) : net.queue[k2].msg = m

\* after a broadcast one agent at goal announced its cell and another one
\* the rest of a path it has partly walked
C22_Witness ==
    /\ sim.pc = "validate" /\ cfg.network_params = Reliable
    /\ \E i, j \in 1..Len(ctrl) :
          /\ AgentState(State, ctrl[i]).at_goal
          /\ \E k \in PathSent(i) : net.queue[k].msg.type = "GOAL_REACHED"
          /\ ~AgentState(State, ctrl[j]).at_goal
          /\ ctrl[j].path_index > 0
          /\ ctrl[j].path_index < Len(ctrl[j].current_path)
          /\ Cardinality(PathSent(j)) = 3

\* C23: in tick t an agent also sends a STATE_SYNC, in 3 copies that carry a
\* copy of its local reservation table as it is at send time, exactly when t
\* is a multiple of 10 or t - last_state_received >= 15.
C23_StateSyncDue ==
    (sim.pc = "validate" /\ cfg.network_params = Reliable) =>
        \A i \in 1..Len(ctrl) :
            /\ Cardinality(SyncSent(i)) =
                  IF \/ world.current_tick % 10 = 0
                     \/ world.current_tick - ctrl[i].last_state_received >= 15
                      THEN 3 ELSE 0
            /\ \A k \in SyncSent(i) :
                  net.queue[k].msg.full_state = <<ctrl[i].local_reservations>>

----------------------------------------------------------------------------
(* Peer harness: two controllers on the 1x5 corridor exchange their        *)
(* messages through a network that hands every message to the other       *)
(* agent one tick after it was sent (the port INetwork is a constructor    *)
(* argument of Simulation).  Every tick runs the receive phase and the     *)
(* broadcast phase of the simulator, controller by controller and message  *)
(* by message; the agents keep the paths the initial state gives them.     *)

MaxPeerTick == 11

\* the clocks the two controllers start with
PeerClocks == { <<0, 0>>, <<0, 4>>, <<4, 0>> }

\* the paths the two controllers hold: head-on, or the second one staying
PeerPaths ==
    { << << <<0, 0>>, <<1, 0>>, <<2, 0>>, <<3, 0>>, <<4, 0>> >>,
         << <<4, 0>>, <<3, 0>>, <<2, 0>>, <<1, 0>>, <<0, 0>> >> >>,
      << << <<0, 0>>, <<1, 0>>, <<2, 0>>, <<3, 0>>, <<4, 0>> >>,
         << <<4, 0>>, <<4, 0>>, <<3, 0>> >> >> }

PeerController(agent, path, clock) ==
    [NewController(agent) EXCEPT
        !.current_path = path,
        !.needs_replan = FALSE,
        !.local_clock = clock,
        !.vector_clock = IF clock > 0 THEN (agent.id :> clock) ELSE <<>>]

NoHandled == [to |-> 0, msg |-> <<>>, before |-> <<>>, replans |-> 0]

PeerInit ==
    /\ \E ids \in {<<1, 2>>, <<2, 1>>}, clocks \in PeerClocks, paths \in PeerPaths :
          /\ world = BuildWorld(CorridorScenario, ids)
          /\ ctrl = [k \in 1..2 |->
                        PeerController(BuildWorld(CorridorScenario, ids).agents[k],
                                       paths[k], clocks[k])]
    /\ pl = [pc |-> "peers", phase |-> "broadcast", turn |-> 1,
             inbox |-> << <<>>, <<>> >>, cleared |-> FALSE,
             start |-> <<>>, last |-> NoHandled]
    /\ net = NewNetwork
    /\ metrics = NewMetrics
    /\ sim = [pc |-> "off"]
    /\ cfg = [max_ticks |-> 0, driver |-> "none", network_params |-> Reliable, seed |-> 1]
    /\ twin = <<>>

\* the clearing of the local table that opens a controller's turn to receive
PeerClear ==
    /\ pl.phase = "receive" /\ ~pl.cleared
    /\ ctrl' = [ctrl EXCEPT ![pl.turn].local_reservations = {}]
    /\ pl' = [pl EXCEPT !.cleared = TRUE,
                        !.start = IF pl.turn = 1 THEN ctrl ELSE @]
    /\ UNCHANGED <<world, net, metrics, sim, cfg, twin>>

\* the handling of the next received message
PeerHandle ==
    /\ pl.phase = "receive" /\ pl.cleared /\ pl.inbox[pl.turn] # <<>>
    /\ LET msg == Head(pl.inbox[pl.turn])
           acc == handle_message([c |-> ctrl[pl.turn], replans |-> 0], msg,
                                 world.current_tick)
       IN  /\ ctrl' = [ctrl EXCEPT ![pl.turn] = acc.c]
           /\ pl' = [pl EXCEPT !.inbox[pl.turn] = Tail(@),
                               !.last = [to |-> pl.turn, msg |-> msg,
                                         before |-> ctrl[pl.turn],
                                         replans |-> acc.replans]]
           /\ metrics' = record_replans(metrics, acc.replans)
    /\ UNCHANGED <<world, net, sim, cfg, twin>>

\* the next controller receives, or the receive phase is over
PeerReceived ==
    /\ pl.phase = "receive" /\ pl.cleared /\ pl.inbox[pl.turn] = <<>>
    /\ pl' = [pl EXCEPT !.cleared = FALSE,
                        !.turn = IF pl.turn = 1 THEN 2 ELSE 1,
                        !.phase = IF pl.turn = 1 THEN "receive" ELSE "broadcast",
                        !.last = NoHandled]
    /\ UNCHANGED <<world, ctrl, net, metrics, sim, cfg, twin>>

\* the round of the sending loop of broadcast_intents for one controller
PeerBroadcast ==
    /\ pl.phase = "broadcast"
    /\ LET i == pl.turn
           current_tick == world.current_tick
           c1 == tick_clock(ctrl[i])
           path_msg == path_message(c1, AgentState(State, c1), current_tick,
                                    c1.vector_clock)
           c2 == [tick_clock(c1) EXCEPT !.last_state_broadcast = current_tick]
           state_msg == state_message(c2, current_tick, c2.vector_clock)
           copies(msg) == [k \in 1..REDUNDANCY_FACTOR |-> msg]
       IN  /\ ctrl' = [ctrl EXCEPT ![i] = IF sync_due(c1, current_tick) THEN c2 ELSE c1]
           /\ pl' = [pl EXCEPT
                       !.inbox[3 - i] =
                           @ \o copies(path_msg)
                             \o (IF sync_due(c1, current_tick)
                                     THEN copies(state_msg) ELSE <<>>),
                       !.turn = IF i = 1 THEN 2 ELSE 1,
                       !.phase = IF i = 1 THEN "broadcast" ELSE "advance",
                       !.last = [to |-> 0, msg |-> path_msg, before |-> ctrl[i],
                                 replans |-> 0]]
    /\ UNCHANGED <<world, net, metrics, sim, cfg, twin>>

PeerTick ==
    /\ pl.phase = "advance" /\ world.current_tick < MaxPeerTick
    /\ world' = advance_tick(world)
    /\ pl' = [pl EXCEPT !.phase = "receive", !.last = NoHandled]
    /\ UNCHANGED <<ctrl, net, metrics, sim, cfg, twin>>

PeerNext == PeerClear \/ PeerHandle \/ PeerReceived \/ PeerBroadcast \/ PeerTick

SpecPeers == PeerInit /\ [][PeerNext]_vars

\* the message handled by the last step, its receiver before and after
Handled == pl.last.to # 0
HandledSync == Handled /\ pl.last.msg.type = "STATE_SYNC" /\ pl.last.msg.full_state # <<>>
Receiver == ctrl[pl.last.to]
ReceiverBefore == pl.last.before

SyncAccepted ==
    pl.last.msg.sequence_number > At(ReceiverBefore.last_seen_sequence, pl.last.msg.from)

SyncRule ==
    HandledSync =>
        LET msg == pl.last.msg
            clocked == merge_clock(ReceiverBefore, msg)
        IN  /\ msg.sequence_number = msg.timestamp
            /\ At(Receiver.last_seen_sequence, msg.from) >= msg.sequence_number
            /\ IF SyncAccepted
                   THEN /\ Receiver.local_reservations = merge_state(clocked, msg)
                        /\ At(Receiver.last_seen_sequence, msg.from) = msg.sequence_number
                        /\ Receiver.last_state_received = world.current_tick
                   ELSE /\ Receiver.local_reservations = ReceiverBefore.local_reservations
                        /\ At(Receiver.last_seen_sequence, msg.from)
                               = At(ReceiverBefore.last_seen_sequence, msg.from)
                        /\ Receiver.last_state_received = ReceiverBefore.last_state_received

LastSeenGrows ==
    \A i \in 1..2, p \in AgentIds :
        At(ctrl'[i].last_seen_sequence, p) >= At(ctrl[i].last_seen_sequence, p)

\* C24: a receiver merges a STATE_SYNC of a peer exactly when its sequence
\* number, the tick it was sent at, is greater than last_seen_sequence of
\* that peer, and then records the number and the current tick; a refused
\* sync changes neither the table nor last_state_received; after a copy is
\* handled last_seen_sequence is at least its number, so the later copies
\* are refused, and last_seen_sequence never decreases.
C24_SyncAcceptance == []SyncRule /\ [][LastSeenGrows]_vars

\* a sync is merged into a table that holds entries, and its next copy is refused
C24_Witness ==
    /\ HandledSync /\ ~SyncAccepted
    /\ pl.last.msg.sequence_number > 0
    /\ Receiver.local_reservations # {}
    /\ Receiver.last_state_received = world.current_tick

----------------------------------------------------------------------------
(* Merge harness: one controller of three agents handles one STATE_SYNC    *)
(* of a peer.  The receiver holds entries its peers announced and knows    *)
(* some of their clocks; the message carries the sender's table and clock. *)

MergeAgents == 1..3
MergeStamps == {3, 7}

MergeEntries ==
    { ReservationEntry(c, 1, a) : c \in { <<0, 0>>, <<1, 0>> }, a \in MergeAgents }

\* the vector clocks over the agents, a component absent or stamped
MergeClocks ==
    UNION { [known -> MergeStamps] : known \in SUBSET MergeAgents }

MergeReceiver(table, clock) ==
    [NewController([id |-> 1, pos |-> <<0, 0>>, goal |-> <<1, 0>>, at_goal |-> FALSE,
                    collision_stopped |-> FALSE, path |-> <<>>]) EXCEPT
        !.local_reservations = table,
        !.vector_clock = clock,
        !.local_clock = At(clock, 1)]

MergeSender(from, table, clock) ==
    [NewController([id |-> from, pos |-> <<1, 0>>, goal |-> <<0, 0>>, at_goal |-> FALSE,
                    collision_stopped |-> FALSE, path |-> <<>>]) EXCEPT
        !.local_reservations = table,
        !.vector_clock = clock,
        !.local_clock = clock[from]]

MergeInit ==
    /\ \E mine \in TablesFrom({e \in MergeEntries : e.agent_id # 1}, 1),
          incoming \in TablesFrom(MergeEntries, 1),
          from \in MergeAgents \ {1},
          my_clock \in MergeClocks,
          their_clock \in MergeClocks :
          /\ from \in DOMAIN their_clock
          /\ ctrl = << MergeReceiver(mine, my_clock) >>
          /\ pl = [pc |-> "merge",
                   inbox |-> << state_message(MergeSender(from, incoming, their_clock),
                                              1, their_clock) >>,
                   last |-> NoHandled]
    /\ world = [width |-> 2, height |-> 1, obst |-> {}, agents |-> <<>>, current_tick |-> 2]
    /\ net = NewNetwork
    /\ metrics = NewMetrics
    /\ sim = [pc |-> "off"]
    /\ cfg = [max_ticks |-> 0]
    /\ twin = <<>>

\* the loop body of the receive phase on the STATE_SYNC
MergeHandle ==
    /\ pl.inbox # <<>>
    /\ LET msg == Head(pl.inbox)
           acc == handle_message([c |-> ctrl[1], replans |-> 0], msg, world.current_tick)
       IN  /\ ctrl' = << acc.c >>
           /\ pl' = [pl EXCEPT !.inbox = Tail(@),
                               !.last = [to |-> 1, msg |-> msg, before |-> ctrl[1],
                                         replans |-> acc.replans]]
    /\ UNCHANGED <<world, net, metrics, sim, cfg, twin>>

MergeNext == MergeHandle

SpecMerge == MergeInit /\ [][MergeNext]_vars

\* the owner the rule of the claim prefers: the larger component of the
\* message's clock, the smaller id when a component is missing
IncomingPreferred(msg, reservation, existing) ==
    IF reservation.agent_id \in DOMAIN msg.vector_clock
          /\ existing.agent_id \in DOMAIN msg.vector_clock
        THEN msg.vector_clock[reservation.agent_id] > msg.vector_clock[existing.agent_id]
        ELSE reservation.agent_id < existing.agent_id

\* C25: after an accepted STATE_SYNC is merged, the table holds every
\* incoming entry whose key was absent, and for a key present with a
\* different owner the entry whose owner has the larger component in the
\* message's vector clock (the smaller agent id when a component is
\* missing), the local entry otherwise.
C25_MergeByMessageClock ==
    (HandledSync /\ SyncAccepted) =>
        LET msg == pl.last.msg
            incoming == msg.full_state[1]
            mine == ReceiverBefore.local_reservations
        IN  /\ \A r \in incoming :
                  find(mine, r.key) = {} => r \in Receiver.local_reservations
            /\ \A r \in incoming : \A e \in find(mine, r.key) :
                  r.agent_id # e.agent_id =>
                      IF IncomingPreferred(msg, r, e)
                          THEN r \in Receiver.local_reservations
                          ELSE e \in Receiver.local_reservations

\* vector_clock[self] is the local clock
ClockOwn ==
    \A i \in 1..Len(ctrl) : At(ctrl[i].vector_clock, ctrl[i].id) = ctrl[i].local_clock

\* what a step does to the clocks of the two controllers
ClockStep ==
    \A i \in 1..2 :
        /\ ctrl'[i].local_clock >= ctrl[i].local_clock
        /\ \A a \in DOMAIN ctrl[i].vector_clock :
              /\ a \in DOMAIN ctrl'[i].vector_clock
              /\ ctrl'[i].vector_clock[a] >= ctrl[i].vector_clock[a]
        /\ pl'.last.to = i =>
              /\ ctrl'[i].local_clock > ctrl[i].local_clock
              /\ \A a \in DOMAIN pl'.last.msg.vector_clock :
                    At(ctrl'[i].vector_clock, a) >= pl'.last.msg.vector_clock[a]
        /\ (pl.phase = "broadcast" /\ pl.turn = i) =>
              /\ Len(pl'.inbox[3 - i]) > Len(pl.inbox[3 - i])
              /\ (ctrl'[i].local_clock - ctrl[i].local_clock) * REDUNDANCY_FACTOR
                     = Len(pl'.inbox[3 - i]) - Len(pl.inbox[3 - i])
              /\ \A k \in (Len(pl.inbox[3 - i]) + 1)..Len(pl'.inbox[3 - i]) :
                    /\ pl'.inbox[3 - i][k].vector_clock[ctrl[i].id] > ctrl[i].local_clock
                    /\ pl'.inbox[3 - i][k].vector_clock[ctrl[i].id] <= ctrl'[i].local_clock

\* C26: local_clock grows by at least one with every message handled and
\* by one with every message sent (a message goes out in 3 copies under
\* one stamp), vector_clock[self] equals local_clock, no component of
\* vector_clock ever decreases, and after a message is handled every
\* component is at least the message's.
C26_Clocks == []ClockOwn /\ [][ClockStep]_vars

\* a handled message raises the receiver's knowledge of a peer's clock
C26_Witness ==
    /\ Handled
    /\ pl.pc = "peers"
    /\ Receiver.local_clock = ReceiverBefore.local_clock + 1
    /\ \E a \in DOMAIN pl.last.msg.vector_clock :
          /\ a # Receiver.id
          /\ pl.last.msg.vector_clock[a] > At(ReceiverBefore.vector_clock, a)
          /\ Receiver.vector_clock[a] = pl.last.msg.vector_clock[a]

\* controller i has handled the path announcement its peer sent last tick
\* and the two paths name the same cell at an offset of the lookahead
FindsConflict(i) ==
    \E k \in 1..Len(ctrl[i].known_intents) :
        LET intent == ctrl[i].known_intents[k]
        IN  /\ intent.agent_id = ctrl[3 - i].id
            /\ intent.timestamp + 1 = world.current_tick
            /\ ConflictOffsets(ctrl[i], [planned_path |-> intent.announced_path]) # {}

\* the receive phase of a tick is over for both controllers, neither of
\* which had needs_replan set when it began
BothReceived ==
    /\ pl.pc = "peers" /\ pl.phase = "broadcast" /\ pl.turn = 1
    /\ pl.start # <<>>
    /\ \A i \in 1..2 : ~pl.start[i].needs_replan

----------------------------------------------------------------------------
(* Deadlock harness: the deadlock phase on agents standing in a row, each  *)
(* in one of the situations the phase distinguishes; between two phases    *)
(* the first agent may step aside.                                         *)

MaxPhases == 2

\* the situations of an agent: moved since the last observation, stuck
\* below and at the threshold, collision-stopped below and at its
\* threshold, at goal, never observed
DeadlockProfiles ==
    { [at_goal |-> FALSE, collision_stopped |-> FALSE, seen |-> "elsewhere", stuck_counter |-> 5],
      [at_goal |-> FALSE, collision_stopped |-> FALSE, seen |-> "here", stuck_counter |-> 4],
      [at_goal |-> FALSE, collision_stopped |-> FALSE, seen |-> "here", stuck_counter |-> 5],
      [at_goal |-> FALSE, collision_stopped |-> TRUE, seen |-> "here", stuck_counter |-> 1],
      [at_goal |-> FALSE, collision_stopped |-> TRUE, seen |-> "here", stuck_counter |-> 2],
      [at_goal |-> TRUE, collision_stopped |-> FALSE, seen |-> "here", stuck_counter |-> 7],
      [at_goal |-> FALSE, collision_stopped |-> FALSE, seen |-> "never", stuck_counter |-> 0] }

\* with six agents, the situations that decide the resolver's choice
DeadlockProfilesOfSix ==
    { p \in DeadlockProfiles :
        p.seen = "here" /\ p.stuck_counter \in {2, 4, 5} }

DeadlockIds == { <<1, 2>>, <<2, 1>>, <<1, 2, 3, 4, 5, 6>>, <<6, 5, 4, 3, 2, 1>> }

DeadlockAgent(k, id, profile) ==
    [id |-> id, pos |-> <<k - 1, 0>>,
     goal |-> IF profile.at_goal THEN <<k - 1, 0>> ELSE <<k - 1, 1>>,
     at_goal |-> profile.at_goal, collision_stopped |-> profile.collision_stopped]

DeadlockController(k, id, profile) ==
    [NewController(DeadlockAgent(k, id, profile)) EXCEPT
        !.current_path = << <<k - 1, 0>>, <<k - 1, 1>> >>,
        !.needs_replan = FALSE,
        !.local_reservations = { ReservationEntry(<<k - 1, 0>>, 1, id),
                                 ReservationEntry(<<k - 1, 1>>, 2, id),
                                 ReservationEntry(<<k - 1, 1>>, 3, (id % 2) + 1) },
        !.stuck_counter = profile.stuck_counter,
        !.last_position = IF profile.seen = "here" THEN <<k - 1, 0>>
                          ELSE IF profile.seen = "never" THEN <<-1, -1>>
                          ELSE <<k - 1, 1>>]

DeadlockInit ==
    /\ \E ids \in DeadlockIds :
          \E profiles \in [1..Len(ids) ->
                             IF Len(ids) = 2 THEN DeadlockProfiles
                                             ELSE DeadlockProfilesOfSix] :
             /\ world = [width |-> Len(ids), height |-> 2, obst |-> {},
                         agents |-> [k \in 1..Len(ids) |->
                                        DeadlockAgent(k, ids[k], profiles[k])],
                         current_tick |-> 8]
             /\ ctrl = [k \in 1..Len(ids) |-> DeadlockController(k, ids[k], profiles[k])]
    /\ pl = [pc |-> "deadlock", phases |-> 1]
    /\ net = NewNetwork
    /\ metrics = NewMetrics
    /\ sim = [pc |-> "deadlocks", current_tick_ |-> 8, planned |-> {}]
    /\ cfg = [max_ticks |-> 20, driver |-> "step", network_params |-> Reliable, seed |-> 1]
    /\ twin = <<>>

DeadlockPhase ==
    /\ pl.pc = "deadlock" /\ sim.pc = "deadlocks"
    /\ LET s == do_deadlocks(State)
       IN  /\ world' = s.world
           /\ ctrl' = s.ctrl
           /\ metrics' = s.metrics
           /\ sim' = s.sim
    /\ UNCHANGED <<net, cfg, twin, pl>>

\* the rest of the tick and the start of the next one: the first agent
\* steps aside or stays, like all the others
DeadlockAgain ==
    /\ pl.pc = "deadlock" /\ sim.pc = "execute" /\ pl.phases < MaxPhases
    /\ \E aside \in BOOLEAN :
          world' = [advance_tick(world) EXCEPT
                      !.agents[1].pos =
                          IF aside /\ ~world.agents[1].at_goal
                              THEN <<@[1], 1 - @[2]>> ELSE @]
    /\ sim' = [sim EXCEPT !.pc = "deadlocks"]
    /\ pl' = [pl EXCEPT !.phases = @ + 1]
    /\ UNCHANGED <<ctrl, net, metrics, cfg, twin>>

DeadlockNext == DeadlockPhase \/ DeadlockAgain

SpecDeadlock == DeadlockInit /\ [][DeadlockNext]_vars

----------------------------------------------------------------------------
(* The validation phase and the deadlock phase of a tick *)

ValidateStep == sim.pc = "validate" /\ sim'.pc = "deadlocks"

ValidationForcesContested ==
    ValidateStep =>
        /\ metrics'.total_replans
               = metrics.total_replans
                     + Cardinality({i \in 1..Len(ctrl) : Contested(State, i)})
        /\ \A i \in 1..Len(ctrl) :
              Contested(State, i) =>
                  \/ ctrl'[i].needs_replan
                  \/ /\ ctrl'[i].path_index = 0
                     /\ ctrl'[i].current_path # <<>>
                     /\ ctrl'[i].current_path[1] = AgentState(State, ctrl[i]).pos

ValidationSparesOthers ==
    ValidateStep =>
        \A i \in 1..Len(ctrl) :
            ~Contested(State, i) =>
                /\ ctrl'[i].current_path = ctrl[i].current_path
                /\ ctrl'[i].path_index = ctrl[i].path_index
                /\ ctrl'[i].local_reservations = ctrl[i].local_reservations

\* C28: the validation phase sets needs_replan and counts a replan for
\* every agent that is neither at goal nor collision-stopped and whose
\* next cell is the next cell of another such agent, and its emergency
\* replanning leaves path, path_index and reservations of every agent in
\* no contested cell as they were.
C28_ValidationPhase == [][ValidationForcesContested /\ ValidationSparesOthers]_vars

DeadlockStep == sim.pc = "deadlocks" /\ sim'.pc = "execute"

\* the count of the observation the deadlock phase makes of controller i:
\* one more than before when the agent stands where it was last observed
Observed(i) ==
    IF ctrl[i].last_position = AgentState(State, ctrl[i]).pos
        THEN ctrl[i].stuck_counter + 1
        ELSE 0

\* the controllers whose agents the claim hands to the resolver
Due ==
    {i \in 1..Len(ctrl) :
        LET agent_state == AgentState(State, ctrl[i])
        IN  /\ ~agent_state.at_goal
            /\ Observed(i) >= (IF agent_state.collision_stopped THEN 3 ELSE 6)}

BackedOff(i) ==
    /\ ctrl'[i].stuck_counter = 0
    /\ ctrl'[i].current_path = <<>>
    /\ ctrl'[i].needs_replan
    /\ ctrl'[i].wait_counter \in 3..7

StuckCounting ==
    DeadlockStep =>
        /\ \A i \in 1..Len(ctrl) :
              IF AgentState(State, ctrl[i]).at_goal
                  THEN ctrl'[i] = ctrl[i]
                  ELSE /\ ctrl'[i].last_position = AgentState(State, ctrl[i]).pos
                       /\ \/ ctrl'[i].stuck_counter = Observed(i)
                          \/ i \in Due /\ BackedOff(i)
                       /\ i \notin Due =>
                             /\ ctrl'[i].current_path = ctrl[i].current_path
                             /\ ctrl'[i].wait_counter = ctrl[i].wait_counter
                             /\ ctrl'[i].needs_replan = ctrl[i].needs_replan
        /\ Due # {} => \E i \in Due : BackedOff(i)
        /\ metrics'.total_replans
               = metrics.total_replans
                     + (IF Due = {} THEN 0 ELSE Max(1, Cardinality(Due) \div 2))

StuckKept ==
    (~DeadlockStep /\ Len(ctrl') = Len(ctrl) /\ sim.pc # "idle") =>
        \A i \in 1..Len(ctrl) :
            /\ ctrl'[i].stuck_counter = ctrl[i].stuck_counter
            /\ ctrl'[i].last_position = ctrl[i].last_position

\* C29: the deadlock phase counts, for every agent not at goal, the
\* consecutive observations at which the agent stood where it was last
\* observed (zero after a move or a back-off); the resolver is called with
\* exactly the agents whose count is at least 6, or at least 3 when
\* collision-stopped; agents at goal are left alone; no other phase
\* changes stuck_counter or last_position.
C29_StuckCounter == [][StuckCounting /\ StuckKept]_vars

\* the resolver was called with a collision-stopped agent observed three
\* times on its cell, which it left alone, and backed another agent off
C29_Witness ==
    /\ pl.pc = "deadlock" /\ sim.pc = "execute"
    /\ \E i \in 1..Len(ctrl) :
          /\ ctrl[i].wait_counter >= 3 /\ ctrl[i].current_path = <<>>
          /\ ctrl[i].stuck_counter = 0 /\ ctrl[i].needs_replan
    /\ \E i \in 1..Len(ctrl) :
          /\ ctrl[i].stuck_counter = 3
          /\ AgentState(State, ctrl[i]).collision_stopped

\* the index of controller i's agent in the deadlocked agents sorted by id
SortedIndex(i) == Cardinality({j \in Due : ctrl[j].id < ctrl[i].id})

\* the controllers the claim has backed off
LowerHalf ==
    {i \in Due :
        SortedIndex(i) >= Cardinality(Due) - Max(1, Cardinality(Due) \div 2)}

ResolverBacksOff ==
    DeadlockStep =>
        \A i \in 1..Len(ctrl) :
            LET k == AgentOf(world, ctrl[i].id)
            IN  IF i \in LowerHalf
                    THEN /\ ctrl'[i].current_path = <<>>
                         /\ ctrl'[i].path_index = 0
                         /\ ctrl'[i].needs_replan
                         /\ ctrl'[i].stuck_counter = 0
                         /\ \A e \in ctrl'[i].local_reservations : e.agent_id # ctrl[i].id
                         /\ \A e \in ctrl[i].local_reservations :
                               e.agent_id # ctrl[i].id => e \in ctrl'[i].local_reservations
                         /\ ctrl'[i].wait_counter = 3 + (SortedIndex(i) % 5)
                         /\ world'.agents[k]
                                = [world.agents[k] EXCEPT !.collision_stopped = FALSE]
                    ELSE /\ ctrl'[i]
                                = [ctrl[i] EXCEPT
                                     !.stuck_counter = ctrl'[i].stuck_counter,
                                     !.last_position = ctrl'[i].last_position,
                                     !.last_successful_move = ctrl'[i].last_successful_move]
                         /\ world'.agents[k] = world.agents[k]

\* C30: of the n deadlocked agents sorted by ascending id the resolver
\* backs off exactly the max(1, floor(n/2)) with the largest ids; each of
\* them ends with an empty path, path_index 0, needs_replan, stuck_counter
\* 0, no entry of its own in its table, collision_stopped false and
\* wait_counter 3 + (i mod 5) for its sorted index i; every other agent,
\* deadlocked or not, keeps its controller (the bookkeeping of the
\* detection apart) and its world state.
C30_ResolverBacksOffLowerHalf == [][ResolverBacksOff]_vars

\* six deadlocked agents: the one with sorted index 5 waits 3 ticks, the
\* three with the smallest ids keep their paths
C30_Witness ==
    /\ pl.pc = "deadlock" /\ sim.pc = "execute" /\ Len(ctrl) = 6
    /\ \A i \in 1..6 :
          IF ctrl[i].id >= 4
              THEN /\ ctrl[i].current_path = <<>>
                   /\ ctrl[i].wait_counter = 3 + ((ctrl[i].id - 1) % 5)
              ELSE /\ ctrl[i].current_path # <<>>
                   /\ ctrl[i].stuck_counter >= 3

----------------------------------------------------------------------------
(* The simulator on a full 3x1 row: every agent's goal is a cell another   *)
(* agent starts on, so agents enter occupied cells and the audit finds no  *)
(* free neighbour for some of them.                                        *)

StoppedScenario ==
    [width |-> 3, height |-> 1, obst |-> {},
     spots |-> << <<<<1, 0>>, <<0, 0>>>>, <<<<2, 0>>, <<1, 0>>>>, <<<<0, 0>>, <<2, 0>>>> >>]

StoppedConfigs ==
    { [max_ticks |-> MaxTicksBound, driver |-> d, network_params |-> Reliable, seed |-> 1] :
        d \in {"run", "step"} }

StoppedInit ==
    /\ \E c \in StoppedConfigs :
          \E ids \in IdDraws(Len(StoppedScenario.spots)) :
             LET s == NewSimulation(StoppedScenario, ids, c)
             IN  /\ world = s.world
                 /\ ctrl = s.ctrl
                 /\ net = s.net
                 /\ metrics = s.metrics
                 /\ sim = s.sim
                 /\ cfg = s.cfg
    /\ twin = <<>>
    /\ pl = NoPlan

SpecStopped == StoppedInit /\ [][Next]_vars

\* controller i's agent is latched and not at goal
Latched(i) ==
    /\ AgentState(State, ctrl[i]).collision_stopped
    /\ ~AgentState(State, ctrl[i]).at_goal

\* the deadlock phase counts a latched agent as stuck, or the resolver
\* releases it, its count having reached 3
StoppedCounted ==
    DeadlockStep =>
        \A i \in 1..Len(ctrl) :
            Latched(i) =>
                \/ ctrl'[i].stuck_counter = ctrl[i].stuck_counter + 1
                \/ /\ ctrl[i].stuck_counter + 1 >= COLLISION_DEADLOCK_THRESHOLD
                   /\ ctrl'[i].stuck_counter = 0
                   /\ ~world'.agents[AgentOf(world, ctrl[i].id)].collision_stopped

\* only the resolver, or the rebuilding of the world, clears the latch
StoppedCleared ==
    \A k \in 1..NumAgents(world) :
        (/\ NumAgents(world') = NumAgents(world)
         /\ world.agents[k].collision_stopped
         /\ ~world'.agents[k].collision_stopped)
            => DeadlockStep

\* C31: an agent latched collision_stopped while not at goal is counted as
\* stuck by the deadlock phase of every tick it stays stopped and is
\* released by the resolver once its count has reached 3; nothing but the
\* resolver clears collision_stopped during a run.
C31_StoppedReleased == [][StoppedCounted /\ StoppedCleared]_vars

----------------------------------------------------------------------------
(* Harness for the horizon of the planner: calls of plan_path on grids     *)
(* whose goal is walled off or held by peers for a number of ticks, so     *)
(* that the search runs up to max_time.                                    *)

\* the longest hold of a cell, in ticks
MaxHold == 7

HorizonWorlds ==
    { [width |-> 3, height |-> 1, obst |-> {}],
      [width |-> 3, height |-> 1, obst |-> {<<1, 0>>}],
      [width |-> 2, height |-> 2, obst |-> {}] }

HorizonStarts == { <<0, 0>>, <<1, 0>> }
HorizonGoals == { <<2, 0>>, <<1, 0>>, <<0, 0>> }
HoldCells == { <<0, 0>>, <<1, 0>>, <<2, 0>>, <<0, 1>> }

\* agent_id holding cell from tick from to tick to
Hold(cell, from, to, agent_id) ==
    { ReservationEntry(cell, t, agent_id) : t \in from..to }

\* tables in which peer 2 holds one cell and peer 3 another one, each from
\* the tick after start_time on, and the small tables of the planner harness
HorizonTables(start_time) ==
    { Hold(c, start_time + 1, start_time + b, 2) \cup Hold(d, start_time + 1, start_time + e, 3) :
        c \in HoldCells, b \in 0..MaxHold, d \in {<<1, 0>>, <<0, 1>>}, e \in {0, 3, MaxHold} }
    \cup PlanTables(start_time)

HorizonInit ==
    /\ \E w \in HorizonWorlds, start \in HorizonStarts, goal \in HorizonGoals,
          start_time \in PlanStartTicks :
          \E T \in HorizonTables(start_time) :
             /\ \A e, f \in T : e.key = f.key => e = f
             /\ pl = [pc |-> "input", w |-> w, start |-> start, goal |-> goal,
                      reservations |-> T, agent_id |-> 1, start_time |-> start_time,
                      path |-> <<>>]
    /\ world = [width |-> 0, height |-> 0, obst |-> {}, agents |-> <<>>, current_tick |-> 0]
    /\ ctrl = <<>>
    /\ net = NewNetwork
    /\ metrics = [total_messages |-> 0]
    /\ sim = [pc |-> "off"]
    /\ cfg = [max_ticks |-> 0]
    /\ twin = <<>>

SpecHorizon == HorizonInit /\ [][PlannerNext]_vars

\* the free cells of the grid of the call
FreeCells == { c \in (0..(pl.w.width - 1)) \X (0..(pl.w.height - 1)) : c \notin pl.w.obst }

\* another agent holds to at tick t and from at tick t + 1
SwapsWith(from, to, t) ==
    \E b \in AgentIds :
        /\ b # pl.agent_id
        /\ ReservationEntry(to, t, b) \in pl.reservations
        /\ ReservationEntry(from, t + 1, b) \in pl.reservations

\* the cells a conflict-free wait or unit step reaches at tick t + 1 from
\* the cells of frontier at tick t
StepFrom(frontier, t) ==
    { c \in FreeCells :
        /\ ~OwnedByOther(c, t + 1)
        /\ \E p \in frontier :
              \/ c = p
              \/ Adjacent4(c, p) /\ ~SwapsWith(p, c, t) }

RECURSIVE ShortestFrom(_, _)
\* the number of cells of a shortest conflict-free sequence that reaches the
\* goal no later than the horizon, given the cells reachable after k steps;
\* 0 when there is none
ShortestFrom(frontier, k) ==
    IF pl.goal \in frontier THEN k + 1
    ELSE IF k >= pl.w.width * pl.w.height * 2 THEN 0
    ELSE ShortestFrom({ c : c \in StepFrom(frontier, pl.start_time + k) }, k + 1)

Shortest == ShortestFrom({pl.start} \cap FreeCells, 0)

\* C32: plan_path returns a non-empty path exactly when a conflict-free
\* sequence of waits and unit steps over free cells reaches the goal no later
\* than start_tick + 2*width*height, and the returned path has as few cells
\* as the shortest such sequence.
C32_PlannerCompleteAndMinimal ==
    Planned => Len(pl.path) = Shortest

\* a path returned that reaches the goal exactly at the horizon, after
\* waiting for a peer to leave the only way through
C32_Witness ==
    /\ Planned
    /\ pl.path # <<>>
    /\ Len(pl.path) = pl.w.width * pl.w.height * 2 + 1
    /\ \E i \in 2..Len(pl.path) : pl.path[i] = pl.path[i - 1]

\* no path returned although start and goal are free cells
C32_WitnessNone ==
    /\ Planned
    /\ pl.path = <<>>
    /\ pl.start \in FreeCells /\ pl.goal \in FreeCells
    /\ pl.reservations # {}

----------------------------------------------------------------------------
(* The entries of the other agents under commit and clear *)

OwnedByOthers(reservations, agent_id) == {e \in reservations : e.agent_id # agent_id}

\* the keys of the last commit that another agent owned before it
ContestedKeys ==
    { e.key : e \in commit_entries(pl.last.path, pl.last.agent_id, pl.last.start_time) }
    \cap Keys(OwnedByOthers(pl.before, pl.last.agent_id))

\* C33: commit_reservations(path, A, table, s) and clear_reservations(A,
\* table) leave the set of entries owned by agents other than A as it was,
\* and a key of the new path that another agent owned before the commit is
\* still owned by that agent, and not by A, after it.
C33_OthersUntouched ==
    pl.last.op \in {"commit", "clear"} =>
        /\ OwnedByOthers(pl.reservations, pl.last.agent_id)
              = OwnedByOthers(pl.before, pl.last.agent_id)
        /\ pl.last.op = "commit" =>
              \A k \in ContestedKeys :
                  /\ [key |-> k, agent_id |-> pl.last.agent_id] \notin pl.reservations
                  /\ \E e \in pl.before :
                        e.key = k /\ e.agent_id # pl.last.agent_id /\ e \in pl.reservations

\* a commit whose path crosses a key another agent owns, and that inserts
\* entries of its own beside it
C33_Witness ==
    /\ pl.last.op = "commit"
    /\ ContestedKeys # {}
    /\ Owned(pl.reservations, pl.last.agent_id) # {}
    /\ Owned(pl.before, pl.last.agent_id) # {}

----------------------------------------------------------------------------
(* Runs on the full 3x1 row in which one deadlock phase that backs agents  *)
(* off is observed: pl keeps one backed-off agent, the wait_counter the    *)
(* resolver gave it, the tick and the agent's cell.                        *)

Watching == [pc |-> "watching"]

BackoffInit ==
    /\ \E c \in StoppedConfigs :
          \E ids \in IdDraws(Len(StoppedScenario.spots)) :
             LET s == NewSimulation(StoppedScenario, ids, c)
             IN  /\ world = s.world
                 /\ ctrl = s.ctrl
                 /\ net = s.net
                 /\ metrics = s.metrics
                 /\ sim = s.sim
                 /\ cfg = s.cfg
    /\ twin = <<>>
    /\ pl = Watching

\* the deadlock phase of a tick in which resolve_deadlock backs agents off
BackoffPhase ==
    /\ sim.pc = "deadlocks" /\ pl = Watching
    /\ deadlocked_agents(State) # {}
    /\ LET s == do_deadlocks(State)
           sorted_agents == sort(deadlocked_agents(State))
           agents_to_back_off == Max(1, Len(sorted_agents) \div 2)
       IN  /\ world' = s.world
           /\ ctrl' = s.ctrl
           /\ metrics' = s.metrics
           /\ sim' = s.sim
           /\ \E j \in (Len(sorted_agents) - agents_to_back_off + 1)..Len(sorted_agents) :
                 LET k == CHOOSE k \in 1..Len(s.ctrl) : s.ctrl[k].id = sorted_agents[j]
                 IN  pl' = [pc |-> "backed_off", agent_id |-> sorted_agents[j],
                            wait_counter |-> s.ctrl[k].wait_counter,
                            tick |-> s.world.current_tick,
                            pos |-> AgentState(s, s.ctrl[k]).pos]
    /\ UNCHANGED <<net, cfg, twin>>

BackoffNext == BackoffPhase \/ Next

SpecBackoff == BackoffInit /\ [][BackoffNext]_vars

\* the controller of the observed agent
Observer == ctrl[CHOOSE k \in 1..Len(ctrl) : ctrl[k].id = pl.agent_id]

\* the rest of the tick of the back-off and the wait_counter ticks after it
InBackoffWindow ==
    /\ pl.pc = "backed_off"
    /\ world.current_tick \in pl.tick..(pl.tick + pl.wait_counter)

\* C34: an agent the deadlock resolver backed off with wait_counter = w (3
\* to 7) has no path planned and stays on its cell during the w ticks that
\* follow.
C34_BackedOffWaits ==
    InBackoffWindow =>
        /\ pl.wait_counter \in 3..7
        /\ Observer.current_path = <<>>
        /\ AgentState(State, Observer).pos = pl.pos

----------------------------------------------------------------------------
(* The start tick of the planner calls of a tick *)

\* controller i got a new path in this step
Replanned(i) ==
    /\ ctrl'[i] # ctrl[i]
    /\ ctrl'[i].current_path # <<>>
    /\ ctrl'[i].path_index = 0
    /\ ~ctrl'[i].needs_replan

\* a path planned in the planning phase or in the validation phase is
\* committed from the world's current tick on
PlansFromWorldTick ==
    sim.pc \in {"plan", "validate"} =>
        \A i \in 1..Len(ctrl) :
            Replanned(i) =>
                /\ Owned(ctrl'[i].local_reservations, ctrl[i].id) # {}
                /\ Owned(ctrl'[i].local_reservations, ctrl[i].id)
                      \subseteq commit_entries(ctrl'[i].current_path, ctrl[i].id,
                                               world.current_tick)

\* get_current_tick() between two calls of step() and after run()
TickReported ==
    sim.pc \in {"idle", "done"} => sim.current_tick_ = world.current_tick

\* C35: every path an agent plans during a tick, in the planning phase or in
\* the emergency replanning of the validation phase, is planned and committed
\* from the world's current tick, under run() and under step(), and
\* get_current_tick() equals the world's current tick after either.
C35_WorldTickEverywhere == []TickReported /\ [][PlansFromWorldTick]_vars

----------------------------------------------------------------------------
(* The collision audit.  The harness draws the positions execute_moves     *)
(* can leave behind, which puts agents on occupied cells, on an open 3x2   *)
(* grid and on one with an obstacle, and applies the audit once.           *)

AuditWorlds ==
    { [width |-> 3, height |-> 2, obst |-> {}],
      [width |-> 3, height |-> 2, obst |-> {<<1, 1>>}],
      [width |-> 2, height |-> 1, obst |-> {}] }

AuditGoals == << <<1, 0>>, <<0, 0>>, <<1, 0>> >>

AuditAgent(k, pos, stopped) ==
    [id |-> k, pos |-> pos, goal |-> AuditGoals[k],
     at_goal |-> pos = AuditGoals[k], collision_stopped |-> stopped]

AuditInit ==
    /\ \E w \in AuditWorlds, stopped \in BOOLEAN :
          \E cells \in [1..3 -> {c \in (0..(w.width - 1)) \X (0..(w.height - 1)) :
                                    c \notin w.obst}] :
             /\ world = [width |-> w.width, height |-> w.height, obst |-> w.obst,
                         agents |-> [k \in 1..3 |->
                                        AuditAgent(k, cells[k], stopped /\ k = 1)],
                         current_tick |-> 3]
             /\ ctrl = [k \in 1..3 |->
                           NewController(AuditAgent(k, cells[k], stopped /\ k = 1))]
    /\ pl = [pc |-> "audit"]
    /\ net = NewNetwork
    /\ metrics = NewMetrics
    /\ sim = [pc |-> "collisions", current_tick_ |-> 3, planned |-> {}]
    /\ cfg = [max_ticks |-> 20, driver |-> "step", network_params |-> Reliable, seed |-> 1]
    /\ twin = <<>>

AuditPhase ==
    /\ pl.pc = "audit" /\ sim.pc = "collisions"
    /\ LET s == do_collisions(State)
       IN  /\ world' = s.world
           /\ ctrl' = s.ctrl
           /\ metrics' = s.metrics
           /\ sim' = s.sim
    /\ UNCHANGED <<net, cfg, twin, pl>>

AuditNext == AuditPhase

SpecAudit == AuditInit /\ [][AuditNext]_vars

AuditStep == sim.pc = "collisions" /\ sim'.pc = "advance"

\* agent k of the world was moved by the audit
Displaced(k) == world'.agents[k].pos # world.agents[k].pos

\* the cells east, west, south and north of a cell, in this order
Around(cell) ==
    << <<cell[1] + 1, cell[2]>>, <<cell[1] - 1, cell[2]>>,
       <<cell[1], cell[2] + 1>>, <<cell[1], cell[2] - 1>> >>

\* another agent stands on the cell before or after the audit
Taken(k, cell) ==
    \E j \in 1..NumAgents(world) :
        j # k /\ (world.agents[j].pos = cell \/ world'.agents[j].pos = cell)

SharedCellsLatched ==
    AuditStep =>
        \A k, j \in 1..NumAgents(world') :
            (k # j /\ world'.agents[k].pos = world'.agents[j].pos)
                => world'.agents[k].collision_stopped /\ world'.agents[j].collision_stopped

DisplacedAlone ==
    AuditStep =>
        \A k \in 1..NumAgents(world) :
            Displaced(k) =>
                LET from == world.agents[k].pos
                    to == world'.agents[k].pos
                IN  /\ \E j \in 1..NumAgents(world) : j # k /\ world.agents[j].pos = from
                    /\ \A j \in 1..NumAgents(world') : j # k => world'.agents[j].pos # to
                    /\ is_valid_cell(world, to) /\ to \notin world.obst
                    /\ \E n \in 1..4 :
                          /\ Around(from)[n] = to
                          /\ \A m \in 1..(n - 1) :
                                \/ ~is_valid_cell(world, Around(from)[m])
                                \/ Around(from)[m] \in world.obst
                                \/ Taken(k, Around(from)[m])

\* C36: at the end of the collision audit of a tick every cell that holds
\* two or more agents holds only agents latched collision_stopped, and every
\* agent the audit moved had shared its cell and is alone on a valid
\* non-obstacle cell next to it, the first of east, west, south and north
\* that is valid, no obstacle and not taken.
C36_AuditSeparatesOrLatches == [][SharedCellsLatched /\ DisplacedAlone]_vars

\* after an audit: an agent moved off the cell its controller last knew,
\* and the agent it collided with latched
C36_Witness ==
    /\ pl.pc = "audit" /\ sim.pc = "advance"
    /\ \E k, j \in 1..NumAgents(world) :
          /\ k # j
          /\ world.agents[k].pos # ctrl[k].last_intent
          /\ ~world.agents[k].collision_stopped
          /\ world.agents[j].collision_stopped
          /\ world.agents[j].pos = ctrl[k].last_intent

\* after an audit: two latched agents left on one cell
C36_WitnessShared ==
    /\ pl.pc = "audit" /\ sim.pc = "advance"
    /\ \E k, j \in 1..NumAgents(world) :
          /\ k # j /\ world.agents[k].pos = world.agents[j].pos
          /\ world.agents[k].collision_stopped /\ world.agents[j].collision_stopped

----------------------------------------------------------------------------
(* Movement per tick, read off the traces step_internal records at the end *)
(* of every tick                                                           *)

\* a row of four cells on which the first agent has to pass the goal of
\* the second one
TransitScenario ==
    [width |-> 4, height |-> 1, obst |-> {},
     spots |-> << <<<<0, 0>>, <<3, 0>>>>, <<<<1, 0>>, <<2, 0>>>> >>]

TransitInit ==
    /\ \E c \in CorridorConfigs :
          \E ids \in IdDraws(Len(TransitScenario.spots)) :
             LET s == NewSimulation(TransitScenario, ids, c)
             IN  /\ world = s.world
                 /\ ctrl = s.ctrl
                 /\ net = s.net
                 /\ metrics = s.metrics
                 /\ sim = s.sim
                 /\ cfg = s.cfg
    /\ twin = <<>>
    /\ pl = NoPlan

SpecTransit == TransitInit /\ [][Next]_vars

\* the cell of the k-th agent in the n-th recorded trace
TracedCell(n, k) == metrics.traces[n].agent_positions[k][2]

\* C37: the position of every agent at the end of a tick is the cell it had
\* at the end of the previous tick or a cell 4-adjacent to it, and a valid
\* non-obstacle cell, the execute phase and the collision audit taken
\* together.
C37_OneCellPerTick ==
    \A n \in 2..Len(metrics.traces) :
        \A k \in 1..Len(metrics.traces[n].agent_positions) :
            /\ \/ TracedCell(n, k) = TracedCell(n - 1, k)
               \/ Adjacent4(TracedCell(n, k), TracedCell(n - 1, k))
            /\ is_valid_cell(world, TracedCell(n, k))
            /\ TracedCell(n, k) \notin world.obst

----------------------------------------------------------------------------
(* Runs on a row of four cells on which the first agent has to pass the    *)
(* goal of the second one from the east, with one failed planner call of   *)
(* the planning phase observed: pl keeps the agent and the tick.           *)

StaleScenario ==
    [width |-> 4, height |-> 1, obst |-> {},
     spots |-> << <<<<3, 0>>, <<0, 0>>>>, <<<<2, 0>>, <<1, 0>>>> >>]

FailedInit ==
    /\ \E c \in CorridorConfigs :
          \E ids \in IdDraws(Len(StaleScenario.spots)) :
             LET s == NewSimulation(StaleScenario, ids, c)
             IN  /\ world = s.world
                 /\ ctrl = s.ctrl
                 /\ net = s.net
                 /\ metrics = s.metrics
                 /\ sim = s.sim
                 /\ cfg = s.cfg
    /\ twin = <<>>
    /\ pl = Watching

\* the task of plan_agent_moves for a controller with needs_replan set
\* whose call of plan_path returns the empty path
FailedPlanTask(i) ==
    /\ sim.pc = "plan" /\ i \notin sim.planned /\ pl = Watching
    /\ ctrl[i].needs_replan
    /\ ~AgentState(State, ctrl[i]).at_goal
    /\ ~AgentState(State, ctrl[i]).collision_stopped
    /\ plan_path(world, AgentState(State, ctrl[i]).pos, AgentState(State, ctrl[i]).goal,
                 clear_reservations(ctrl[i].id, ctrl[i].local_reservations),
                 ctrl[i].id, world.current_tick) = <<>>
    /\ LET s == do_plan_task(State, i)
       IN  /\ ctrl' = s.ctrl
           /\ metrics' = s.metrics
           /\ sim' = s.sim
    /\ pl' = [pc |-> "plan_failed", agent_id |-> ctrl[i].id, tick |-> world.current_tick,
              wait_counter |-> ctrl[i].wait_counter]
    /\ UNCHANGED <<world, net, cfg, twin>>

FailedNext == (\E i \in 1..Len(ctrl) : FailedPlanTask(i)) \/ Next

SpecFailed == FailedInit /\ [][FailedNext]_vars

\* the observed call has just failed
PlanFailedNow == pl = Watching /\ pl'.pc = "plan_failed"

\* the execute phase of the tick of the observed failure, for an agent
\* whose emergency replanning has not given it a path either
ExecuteAfterFailure ==
    /\ sim.pc = "execute" /\ sim'.pc = "collisions"
    /\ pl.pc = "plan_failed" /\ pl.tick = world.current_tick
    /\ Observer.needs_replan

\* C38: an agent with needs_replan set for which every planner call of the
\* tick returns the empty path gets its wait_counter incremented and is not
\* moved by the execute phase of that tick.
C38_FailedPlanWaits ==
    [][ /\ PlanFailedNow =>
              \E i \in 1..Len(ctrl) :
                  /\ ctrl[i].id = pl'.agent_id
                  /\ ctrl'[i].wait_counter = ctrl[i].wait_counter + 1
        /\ ExecuteAfterFailure =>
              world'.agents[AgentOf(world, pl.agent_id)].pos
                  = world.agents[AgentOf(world, pl.agent_id)].pos ]_vars

----------------------------------------------------------------------------
(* The ticks of the entries built from a path announcement.  The sender    *)
(* announces current_path from path_index on during tick timestamp, and    *)
(* execute_moves puts it on current_path[path_index] in that tick: the     *)
(* j-th announced cell, counted from 0, is its cell at the end of tick     *)
(* timestamp + j, and the last one from then on.                           *)

HandledPath ==
    /\ Handled
    /\ pl.last.msg.type = "PATH_ANNOUNCEMENT"
    /\ pl.last.msg.planned_path # <<>>

\* the cell the announced path gives its sender at the end of tick t
AnnouncedCell(msg, t) ==
    IF t - msg.timestamp + 1 <= Len(msg.planned_path)
        THEN msg.planned_path[t - msg.timestamp + 1]
        ELSE msg.planned_path[Len(msg.planned_path)]

\* C39: with zero latency and no drops, every entry (c, t) a receiver holds
\* for a peer after handling the peer's path announcement names the cell c
\* on which the announced path places the peer at the end of tick t.
C39_EntriesOnAnnouncedTicks ==
    HandledPath =>
        \A e \in Owned(Receiver.local_reservations, pl.last.msg.from) :
            /\ e.key[3] >= pl.last.msg.timestamp
            /\ <<e.key[1], e.key[2]>> = AnnouncedCell(pl.last.msg, e.key[3])

----------------------------------------------------------------------------
(* reset().  initialize() moves config_.world into the WorldManager, which *)
(* leaves the grid and the agents of config_.world empty and its numbers   *)
(* as they were; reset() builds the new WorldManager from that world.  No  *)
(* cell of the empty grid is read afterwards, as no agent is left.         *)

\* the most calls of reset() in a run
MaxResets == 2

reset(s) ==
    [s EXCEPT
       !.sim.current_tick_ = 0,
       !.sim.pc = "idle",
       !.metrics = NewMetrics,
       !.net = [@ EXCEPT !.queue = <<>>, !.total_sent = 0, !.total_dropped = 0],
       !.world = [width |-> s.world.width, height |-> s.world.height, obst |-> {},
                  agents |-> <<>>, current_tick |-> 0],
       !.ctrl = <<>>]

\* pl keeps the world initialize() built and counts the calls of reset()
ResetInit ==
    /\ \E c \in CorridorConfigs :
          \E ids \in IdDraws(Len(TransitScenario.spots)) :
             LET s == NewSimulation(TransitScenario, ids, c)
             IN  /\ world = s.world
                 /\ ctrl = s.ctrl
                 /\ net = s.net
                 /\ metrics = s.metrics
                 /\ sim = s.sim
                 /\ cfg = s.cfg
                 /\ pl = [pc |-> "initialized", world |-> s.world, ctrl |-> s.ctrl,
                          resets |-> 0]
    /\ twin = <<>>

\* a call of reset() between two calls of step(), before run() or after it
ResetCall ==
    /\ sim.pc \in {"idle", "done"}
    /\ pl.resets < MaxResets
    /\ LET s == reset(State)
       IN  /\ world' = s.world
           /\ ctrl' = s.ctrl
           /\ net' = s.net
           /\ metrics' = s.metrics
           /\ sim' = s.sim
    /\ pl' = [pl EXCEPT !.resets = @ + 1]
    /\ UNCHANGED <<cfg, twin>>

ResetNext == ResetCall \/ Next

SpecReset == ResetInit /\ [][ResetNext]_vars

ResetStep == pl'.resets = pl.resets + 1

\* C40: after reset() the tick is 0, the metrics and the queues and counters
\* of the network are empty, the world holds the grid and the agents of
\* initialize(), each on its start cell and not at goal, with fresh
\* controllers, and is_complete() is false if it was false after
\* initialize().
C40_ResetRestores ==
    [][ ResetStep =>
          /\ sim'.current_tick_ = 0 /\ world'.current_tick = 0
          /\ metrics' = NewMetrics
          /\ net'.queue = <<>> /\ net'.total_sent = 0 /\ net'.total_dropped = 0
          /\ world' = pl.world
          /\ ctrl' = pl.ctrl
          /\ ~is_complete([world |-> pl.world, cfg |-> cfg])
                => ~is_complete([world |-> world', cfg |-> cfg]) ]_vars

====
